---- MODULE Spec2Model ----
(***************************************************************************)
(* A model of the lexical search and ranking code of lifeartchatbot:       *)
(* text normalisation (pdf/search.py), the query analyzer                  *)
(* (core/query_analyzer.py) and the search variants (pdf/search.py,        *)
(* pdf/search_strict.py, pdf/search_enhanced.py,                           *)
(* pdf/search_intelligent.py), the snippets (pdf/snippet.py), the          *)
(* highlighter of core/answer_generator.py, the proximity bonus of         *)
(* pdf/advanced_search.py, the conversation history of app_advanced.py,    *)
(* the answer path of pdf/search_with_llm.py and the login of              *)
(* core/auth.py.                                                           *)
(*                                                                         *)
(* A Python str is modelled as the sequence of its Unicode code points, so *)
(* that character classes of regular expressions are ranges of code points *)
(* and str.translate / str.lower are arithmetic on them.  Every literal is *)
(* followed by a comment that shows the text it stands for.                *)
(***************************************************************************)
EXTENDS Integers, Sequences, FiniteSets, TLC

VARIABLES
    nt_text,      \* normalize_text: the argument `text`
    nt_result,    \* normalize_text: the returned string
    nt_called     \* "no" | "plain" | "expand": which call has been made

VARIABLES
    sq_query,     \* the query of the two classifiers
    sq_phase,     \* "input" | "analyzed" | "classified"
    sq_intent,    \* the QueryIntent of QueryAnalyzer().analyze(query, None)
    sq_class      \* the result of analyze_query_intent(query)

VARIABLES
    lists,        \* the Python list objects: lists["own"] is the list that
                  \* QueryAnalyzer.__init__ creates, lists["caller"] the
                  \* caller's conversation context
    qa_history,   \* the list that self.context_history refers to
    qa_call       \* the last call of analyze: its arguments and its result

VARIABLES
    index_exists, \* whether the index file exists
    index_readable, \* whether it is a database with the table `pages`
    pages,        \* the rows of the table `pages`, in the order in which a
                  \* SELECT without ORDER BY enumerates them
    sr_call       \* the last call of a search function: its arguments and
                  \* its result

VARIABLES
    sc_input,     \* the arguments of the scoring functions: a query, a page
                  \* and whether boost_keywords are passed, and the value
                  \* of fuzz.partial_ratio where its laws leave it open
    sc_results    \* what the calls made so far have returned

VARIABLES
    sn_input,     \* the arguments of make_snippet
    sn_result     \* the Snippet it returned, once it has been called

VARIABLES
    mr_ranges,    \* the argument of merge_ranges
    mr_result     \* the list it returned, once it has been called

VARIABLES
    hl_input,     \* the arguments of a highlighter: a text and its terms
    hl_texts      \* the texts the applications of the highlighter returned

VARIABLES
    llm_generator, \* the module global _llm_generator of pdf/llm_answer.py
    llm_call      \* the last call of search_with_llm: its circumstances
                  \* and its result

VARIABLES
    px_input,     \* the arguments of _calculate_proximity_bonus
    px_result     \* what it returned, once it has been called

VARIABLES
    au_config,    \* SimpleAuth: max_attempts and lockout_duration
    au_state,     \* st.session_state: authenticated, login_attempts,
                  \* lockout_until
    au_now,       \* time.time()
    au_call       \* the last call of authenticate: the state and the time
                  \* it was made in, its argument and its result

normVars == <<nt_text, nt_result, nt_called>>
queryVars == <<sq_query, sq_phase, sq_intent, sq_class>>
analyzerVars == <<lists, qa_history, qa_call>>
searchVars == <<index_exists, index_readable, pages, sr_call>>
scoreVars == <<sc_input, sc_results>>
snippetVars == <<sn_input, sn_result>>
rangesVars == <<mr_ranges, mr_result>>
textVars == <<scoreVars, snippetVars, rangesVars>>
highlightVars == <<hl_input, hl_texts>>
llmVars == <<llm_generator, llm_call>>
proximityVars == <<px_input, px_result>>
authVars == <<au_config, au_state, au_now, au_call>>
appVars == <<highlightVars, llmVars, proximityVars, authVars>>
vars == <<normVars, queryVars, analyzerVars, searchVars, textVars, appVars>>

\* What the actions of one specification leave alone.
notNormVars == <<queryVars, analyzerVars, searchVars, textVars, appVars>>
notQueryVars == <<normVars, analyzerVars, searchVars, textVars, appVars>>
notAnalyzerVars == <<normVars, queryVars, searchVars, textVars, appVars>>
notSearchVars == <<normVars, queryVars, analyzerVars, textVars, appVars>>
notTextVars == <<normVars, queryVars, analyzerVars, searchVars, appVars>>
notAppVars == <<normVars, queryVars, analyzerVars, searchVars, textVars>>

(***************************************************************************)
(* Strings                                                                 *)
(***************************************************************************)

\* All sequences over S of length at most n.
SeqsUpTo(S, n) == UNION {[1..k -> S] : k \in 0..n}

\* Python: needle in hay
Contains(hay, needle) ==
    \E i \in 0..(Len(hay) - Len(needle)) :
        SubSeq(hay, i + 1, i + Len(needle)) = needle

\* Python: hay.find(needle)
Find(hay, needle) ==
    IF Contains(hay, needle)
    THEN CHOOSE i \in 0..(Len(hay) - Len(needle)) :
            /\ SubSeq(hay, i + 1, i + Len(needle)) = needle
            /\ \A j \in 0..(i - 1) : SubSeq(hay, j + 1, j + Len(needle)) # needle
    ELSE -1

\* Python: sep.join(parts) for a one-string separator
RECURSIVE Join(_, _)
Join(parts, sep) ==
    IF parts = << >> THEN << >>
    ELSE IF Len(parts) = 1 THEN parts[1]
    ELSE parts[1] \o sep \o Join(Tail(parts), sep)

\* The whitespace of Python's str.isspace and of \s in a str pattern.
Whitespace ==
    {9, 10, 11, 12, 13, 28, 29, 30, 31, 32, 133, 160, 5760, 8232, 8233, 8239,
     8287, 12288} \cup (8192..8202)

IsSpace(c) == c \in Whitespace

\* Python: re.sub(r'\s+', ' ', s): every maximal run of whitespace becomes
\* one space.
RECURSIVE SubWhitespace(_)
SubWhitespace(s) ==
    IF s = << >> THEN << >>
    ELSE IF IsSpace(Head(s))
         THEN IF Len(s) > 1 /\ IsSpace(s[2])
              THEN SubWhitespace(Tail(s))
              ELSE <<32>> \o SubWhitespace(Tail(s))
         ELSE <<Head(s)>> \o SubWhitespace(Tail(s))

\* Python: s.strip()
RECURSIVE Strip(_)
Strip(s) ==
    IF s = << >> THEN << >>
    ELSE IF IsSpace(Head(s)) THEN Strip(Tail(s))
    ELSE IF IsSpace(s[Len(s)]) THEN Strip(SubSeq(s, 1, Len(s) - 1))
    ELSE s

(***************************************************************************)
(* pdf/search.py: normalize_text                                           *)
(***************************************************************************)

\* The full-width forms of ASCII, U+FF01..U+FF5E.
FullwidthAscii == 65281..65374
FullwidthDigits == 65296 (* ０ *)..65305 (* ９ *)
FullwidthLetters == (65313 (* Ａ *)..65338 (* Ｚ *)) \cup (65345 (* ａ *)..65370 (* ｚ *))
\* Uppercase Latin letters: ASCII, Latin-1 and full-width.
UppercaseLatin ==
    (65 (* A *)..90 (* Z *)) \cup (192 (* À *)..214 (* Ö *)) \cup (216 (* Ø *)..222 (* Þ *)) \cup (65313 (* Ａ *)..65338 (* Ｚ *))

\* str.maketrans('０１２３４５６７８９', '0123456789')
DigitToHalfwidth(c) == IF c \in FullwidthDigits THEN c - 65248 ELSE c

\* str.maketrans('ＡＢ...Ｚａｂ...ｚ', 'AB...Zab...z')
LetterToHalfwidth(c) == IF c \in FullwidthLetters THEN c - 65248 ELSE c

\* Python: str.lower, on the scripts the model's alphabets draw from.
LowerMutant(c) == c
Lower(c) == IF c \in UppercaseLatin THEN c + 32 ELSE c

\* The character class of re.sub(r'[、。！？「」『』（）\(\)\[\]【】]', ' ', text)
Punctuation ==
    {12289 (* 、 *), 12290 (* 。 *), 65281 (* ！ *), 65311 (* ？ *), 12300 (* 「 *), 12301 (* 」 *), 12302 (* 『 *), 12303 (* 』 *), 65288 (* （ *), 65289 (* ） *),
     40 (* ( *), 41 (* ) *), 91 (* [ *), 93 (* ] *), 12304 (* 【 *), 12305 (* 】 *)}

PunctuationToSpace(c) == IF c \in Punctuation THEN 32 ELSE c

\* text.translate(digits).translate(letters), text.lower() and the
\* punctuation substitution, character by character.
ToHalfwidth(s) == [i \in 1..Len(s) |-> LetterToHalfwidth(DigitToHalfwidth(s[i]))]
LowerStr(s) == [i \in 1..Len(s) |-> Lower(s[i])]
SubPunctuation(s) == [i \in 1..Len(s) |-> PunctuationToSpace(s[i])]

\* The synonym table SYNONYMS, in the order of the dict.
SYNONYMS == <<
    [base |-> <<26377, 32102>> (* 有給 *), syns |-> <<<<26377, 20241>> (* 有休 *), <<24180, 20241>> (* 年休 *), <<24180, 27425, 26377, 32102>> (* 年次有給 *), <<24180, 27425, 26377, 32102, 20241, 26247>> (* 年次有給休暇 *)>>],
    [base |-> <<32102, 19982>> (* 給与 *), syns |-> <<<<32102, 26009>> (* 給料 *), <<36035, 37329>> (* 賃金 *), <<22577, 37228>> (* 報酬 *)>>],
    [base |-> <<26178, 30701>> (* 時短 *), syns |-> <<<<26178, 38291, 30701, 32302>> (* 時間短縮 *), <<30701, 26178, 38291, 21220, 21209>> (* 短時間勤務 *)>>],
    [base |-> <<36933, 21051>> (* 遅刻 *), syns |-> <<<<36933, 21442>> (* 遅参 *), <<36933, 12428>> (* 遅れ *)>>],
    [base |-> <<26089, 36864>> (* 早退 *), syns |-> <<<<26089, 24341, 12369>> (* 早引け *), <<26089, 24112, 12426>> (* 早帰り *)>>],
    [base |-> <<27424, 21220>> (* 欠勤 *), syns |-> <<<<27424, 24109>> (* 欠席 *), <<20241, 12415>> (* 休み *)>>] >>

\* for syn in synonyms: text = text + " " + syn
RECURSIVE AppendSynonyms(_, _)
AppendSynonyms(text, syns) ==
    IF syns = << >> THEN text
    ELSE AppendSynonyms(text \o <<32>> \o Head(syns), Tail(syns))

\* for base, synonyms in SYNONYMS.items(): if base in text: ...
RECURSIVE ExpandSynonyms(_, _)
ExpandSynonyms(text, table) ==
    IF table = << >> THEN text
    ELSE ExpandSynonyms(
            IF Contains(text, Head(table).base)
            THEN AppendSynonyms(text, Head(table).syns)
            ELSE text,
            Tail(table))

normalize_text(text, expand_synonyms) ==
    IF text = << >> THEN << >>
    ELSE LET halfwidth == ToHalfwidth(text)
             lowered   == LowerStr(halfwidth)
             cleaned   == SubPunctuation(lowered)
             collapsed == Strip(SubWhitespace(cleaned))
         IN  IF expand_synonyms THEN ExpandSynonyms(collapsed, SYNONYMS)
             ELSE collapsed

(***************************************************************************)
(* More strings                                                            *)
(***************************************************************************)

\* Python: s.replace(old, new), for a non-empty old
RECURSIVE Replace(_, _, _)
Replace(s, old, new) ==
    IF Len(s) < Len(old) THEN s
    ELSE IF SubSeq(s, 1, Len(old)) = old
         THEN new \o Replace(SubSeq(s, Len(old) + 1, Len(s)), old, new)
         ELSE <<Head(s)>> \o Replace(Tail(s), old, new)

\* The length of the longest prefix of s whose characters are all in Class.
PrefixLen(s, Class) ==
    CHOOSE n \in 0..Len(s) :
        /\ \A i \in 1..n : s[i] \in Class
        /\ n = Len(s) \/ s[n + 1] \notin Class

\* Python: re.findall(r'[Class]{minLen,}', s): the maximal runs of characters
\* of Class that are at least minLen long, from left to right.
RECURSIVE FindAllRuns(_, _, _)
FindAllRuns(s, Class, minLen) ==
    IF s = << >> THEN << >>
    ELSE LET n == PrefixLen(s, Class)
         IN  IF n = 0 THEN FindAllRuns(Tail(s), Class, minLen)
             ELSE (IF n >= minLen THEN <<SubSeq(s, 1, n)>> ELSE << >>)
                    \o FindAllRuns(SubSeq(s, n + 1, Len(s)), Class, minLen)

\* Python: list(dict.fromkeys(items)): the first occurrence of every item, in
\* order.
RECURSIVE DedupFrom(_, _)
DedupFrom(items, seen) ==
    IF items = << >> THEN << >>
    ELSE IF Head(items) \in seen THEN DedupFrom(Tail(items), seen)
    ELSE <<Head(items)>> \o DedupFrom(Tail(items), seen \cup {Head(items)})

DedupMutant(items) == items
Dedup(items) == DedupFrom(items, {})

\* Python: [x for x in items if x not in excluded]
RECURSIVE Without(_, _)
Without(items, excluded) ==
    IF items = << >> THEN << >>
    ELSE (IF Head(items) \in excluded THEN << >> ELSE <<Head(items)>>)
            \o Without(Tail(items), excluded)

\* Python: items[-n:] for n > 0
LastN(items, n) ==
    IF Len(items) <= n THEN items ELSE SubSeq(items, Len(items) - n + 1, Len(items))

FirstNMutant(items, n) == items

\* Python: items[:n] for n >= 0
FirstN(items, n) == IF Len(items) <= n THEN items ELSE SubSeq(items, 1, n)

ItemsOf(items) == {items[i] : i \in 1..Len(items)}

(***************************************************************************)
(* core/query_analyzer.py: QueryAnalyzer                                   *)
(***************************************************************************)

\* QueryAnalyzer.SYNONYM_DICT, in the order of the dict.
QA_SYNONYM_DICT == <<
    [base |-> <<26377, 32102>> (* 有給 *), syns |-> <<<<26377, 32102, 20241, 26247>> (* 有給休暇 *), <<26377, 20241>> (* 有休 *), <<24180, 27425, 26377, 32102, 20241, 26247>> (* 年次有給休暇 *), <<24180, 20241>> (* 年休 *), <<26377, 32102, 20241, 26247>> (* 有給休暇 *)>>],
    [base |-> <<32102, 19982>> (* 給与 *), syns |-> <<<<32102, 26009>> (* 給料 *), <<36035, 37329>> (* 賃金 *), <<22577, 37228>> (* 報酬 *), <<32102, 19982>> (* 給与 *), <<12469, 12521, 12522, 12540>> (* サラリー *)>>],
    [base |-> <<27531, 26989>> (* 残業 *), syns |-> <<<<26178, 38291, 22806, 21220, 21209>> (* 時間外勤務 *), <<26178, 38291, 22806, 21172, 20685>> (* 時間外労働 *), <<36229, 36942, 21220, 21209>> (* 超過勤務 *), <<27531, 26989>> (* 残業 *)>>],
    [base |-> <<20241, 26247>> (* 休暇 *), syns |-> <<<<20241, 12415>> (* 休み *), <<20241, 26247>> (* 休暇 *), <<12362, 20241, 12415>> (* お休み *), <<20241, 26085>> (* 休日 *)>>],
    [base |-> <<30003, 35531>> (* 申請 *), syns |-> <<<<30003, 12375, 36796, 12415>> (* 申し込み *), <<23626, 20986>> (* 届出 *), <<23626, 12369, 20986>> (* 届け出 *), <<30003, 35531>> (* 申請 *), <<25163, 32154, 12365>> (* 手続き *)>>],
    [base |-> <<32224, 20999>> (* 締切 *), syns |-> <<<<32224, 12417, 20999, 12426>> (* 締め切り *), <<26399, 38480>> (* 期限 *), <<32224, 20999, 26085>> (* 締切日 *), <<32224, 20999>> (* 締切 *), <<12487, 12483, 12489, 12521, 12452, 12531>> (* デッドライン *)>>],
    [base |-> <<21220, 21209>> (* 勤務 *), syns |-> <<<<21172, 20685>> (* 労働 *), <<20181, 20107>> (* 仕事 *), <<26989, 21209>> (* 業務 *), <<21220, 21209>> (* 勤務 *), <<12527, 12540, 12463>> (* ワーク *)>>],
    [base |-> <<36864, 32887>> (* 退職 *), syns |-> <<<<36766, 32887>> (* 辞職 *), <<38626, 32887>> (* 離職 *), <<36864, 31038>> (* 退社 *), <<36864, 32887>> (* 退職 *)>>],
    [base |-> <<29987, 20241>> (* 産休 *), syns |-> <<<<29987, 21069, 29987, 24460, 20241, 26247>> (* 産前産後休暇 *), <<29987, 21069, 29987, 24460, 20241, 26989>> (* 産前産後休業 *), <<20986, 29987, 20241, 26247>> (* 出産休暇 *), <<29987, 20241>> (* 産休 *)>>],
    [base |-> <<32946, 20241>> (* 育休 *), syns |-> <<<<32946, 20816, 20241, 26247>> (* 育児休暇 *), <<32946, 20816, 20241, 26989>> (* 育児休業 *), <<32946, 20241>> (* 育休 *)>>],
    [base |-> <<36933, 21051>> (* 遅刻 *), syns |-> <<<<36933, 12428>> (* 遅れ *), <<36933, 21442>> (* 遅参 *), <<36933, 21051>> (* 遅刻 *)>>],
    [base |-> <<26089, 36864>> (* 早退 *), syns |-> <<<<26089, 24341, 12369>> (* 早引け *), <<26089, 24112, 12426>> (* 早帰り *), <<26089, 36864>> (* 早退 *)>>],
    [base |-> <<27424, 21220>> (* 欠勤 *), syns |-> <<<<20241, 12415>> (* 休み *), <<27424, 24109>> (* 欠席 *), <<19981, 22312>> (* 不在 *), <<27424, 21220>> (* 欠勤 *)>>],
    [base |-> <<25391, 26367>> (* 振替 *), syns |-> <<<<25391, 12426, 26367, 12360>> (* 振り替え *), <<20195, 20241>> (* 代休 *), <<25391, 26367, 20241, 26085>> (* 振替休日 *), <<25391, 26367>> (* 振替 *)>>],
    [base |-> <<36062, 19982>> (* 賞与 *), syns |-> <<<<12508, 12540, 12490, 12473>> (* ボーナス *), <<36062, 19982, 37329>> (* 賞与金 *), <<29305, 21029, 25163, 24403>> (* 特別手当 *), <<36062, 19982>> (* 賞与 *)>>] >>

\* QueryAnalyzer.QUERY_PATTERNS, in the order of the dict.
QUERY_PATTERNS_Mutant == <<
    [type |-> <<25163, 32154, 12365>> (* 手続き *), patterns |-> <<<<26041, 27861>> (* 方法 *), <<25163, 38918>> (* 手順 *), <<12420, 12426, 26041>> (* やり方 *), <<30003, 35531>> (* 申請 *), <<12393, 12358, 12420, 12387, 12390>> (* どうやって *), <<12393, 12398, 12424, 12358, 12395>> (* どのように *)>>],
    [type |-> <<26465, 20214>> (* 条件 *), patterns |-> <<<<26465, 20214>> (* 条件 *), <<22580, 21512>> (* 場合 *), <<12392, 12365>> (* とき *), <<36039, 26684>> (* 資格 *), <<35201, 20214>> (* 要件 *), <<24517, 35201>> (* 必要 *)>>],
    [type |-> <<23450, 32681>> (* 定義 *), patterns |-> <<<<12392, 12399>> (* とは *), <<12387, 12390, 20309>> (* って何 *), <<24847, 21619>> (* 意味 *), <<23450, 32681>> (* 定義 *), <<35500, 26126>> (* 説明 *)>>],
    [type |-> <<26399, 38480>> (* 期限 *), patterns |-> <<<<12356, 12388, 12414, 12391>> (* いつまで *), <<32224, 20999>> (* 締切 *), <<26399, 38480>> (* 期限 *), <<26399, 26085>> (* 期日 *), <<12414, 12391>> (* まで *)>>],
    [type |-> <<37329, 38989>> (* 金額 *), patterns |-> <<<<12356, 12367, 12425>> (* いくら *), <<37329, 38989>> (* 金額 *), <<38989>> (* 額 *), <<20870>> (* 円 *), <<26009, 37329>> (* 料金 *), <<36027, 29992>> (* 費用 *)>>],
    [type |-> <<26399, 38291>> (* 期間 *), patterns |-> <<<<26399, 38291>> (* 期間 *), <<12393, 12398, 12367, 12425, 12356>> (* どのくらい *), <<20309, 26085>> (* 何日 *), <<20309, 12534, 26376>> (* 何ヶ月 *), <<20309, 24180>> (* 何年 *)>>],
    [type |-> <<21487, 21542>> (* 可否 *), patterns |-> <<<<12391, 12365, 12427>> (* できる *), <<21487, 33021>> (* 可能 *), <<12375, 12390, 12418, 12356, 12356>> (* してもいい *), <<35377, 21487>> (* 許可 *), <<31105, 27490>> (* 禁止 *)>>] >>
QUERY_PATTERNS == <<
    [type |-> <<26465, 20214>> (* 条件 *), patterns |-> <<<<26465, 20214>> (* 条件 *), <<22580, 21512>> (* 場合 *), <<12392, 12365>> (* とき *), <<36039, 26684>> (* 資格 *), <<35201, 20214>> (* 要件 *), <<24517, 35201>> (* 必要 *)>>],
    [type |-> <<25163, 32154, 12365>> (* 手続き *), patterns |-> <<<<26041, 27861>> (* 方法 *), <<25163, 38918>> (* 手順 *), <<12420, 12426, 26041>> (* やり方 *), <<30003, 35531>> (* 申請 *), <<12393, 12358, 12420, 12387, 12390>> (* どうやって *), <<12393, 12398, 12424, 12358, 12395>> (* どのように *)>>],
    [type |-> <<23450, 32681>> (* 定義 *), patterns |-> <<<<12392, 12399>> (* とは *), <<12387, 12390, 20309>> (* って何 *), <<24847, 21619>> (* 意味 *), <<23450, 32681>> (* 定義 *), <<35500, 26126>> (* 説明 *)>>],
    [type |-> <<26399, 38480>> (* 期限 *), patterns |-> <<<<12356, 12388, 12414, 12391>> (* いつまで *), <<32224, 20999>> (* 締切 *), <<26399, 38480>> (* 期限 *), <<26399, 26085>> (* 期日 *), <<12414, 12391>> (* まで *)>>],
    [type |-> <<37329, 38989>> (* 金額 *), patterns |-> <<<<12356, 12367, 12425>> (* いくら *), <<37329, 38989>> (* 金額 *), <<38989>> (* 額 *), <<20870>> (* 円 *), <<26009, 37329>> (* 料金 *), <<36027, 29992>> (* 費用 *)>>],
    [type |-> <<26399, 38291>> (* 期間 *), patterns |-> <<<<26399, 38291>> (* 期間 *), <<12393, 12398, 12367, 12425, 12356>> (* どのくらい *), <<20309, 26085>> (* 何日 *), <<20309, 12534, 26376>> (* 何ヶ月 *), <<20309, 24180>> (* 何年 *)>>],
    [type |-> <<21487, 21542>> (* 可否 *), patterns |-> <<<<12391, 12365, 12427>> (* できる *), <<21487, 33021>> (* 可能 *), <<12375, 12390, 12418, 12356, 12356>> (* してもいい *), <<35377, 21487>> (* 許可 *), <<31105, 27490>> (* 禁止 *)>>] >>

\* QueryAnalyzer._zenkaku_to_hankaku
zenkaku_to_hankaku(text) ==
    ToHalfwidth(text)

\* QueryAnalyzer._normalize_query
normalize_query(query) ==
    LET hankaku  == zenkaku_to_hankaku(query)
        katakana == Replace(Replace(Replace(hankaku,
                        <<12532, 12449>> (* ヴァ *), <<12496>> (* バ *)), <<12532, 12451>> (* ヴィ *), <<12499>> (* ビ *)), <<12532>> (* ヴ *), <<12502>> (* ブ *))
        punct    == Replace(Replace(Replace(Replace(katakana,
                        <<12290>> (* 。 *), <<32>> (*   *)), <<12289>> (* 、 *), <<32>> (*   *)), <<65311>> (* ？ *), <<63>> (* ? *)), <<65281>> (* ！ *), <<33>> (* ! *))
    IN  Strip(SubWhitespace(punct))

\* The character classes of the patterns of _extract_keywords.
KanjiOrLongVowel == (19968 (* 一 *)..40869 (* 龥 *)) \cup {12540 (* ー *)}       \* [一-龥ー]
Katakana == (12449 (* ァ *)..12534 (* ヶ *)) \cup {12540 (* ー *)}               \* [ァ-ヶー]
AsciiLetters == (97 (* a *)..122 (* z *)) \cup (65 (* A *)..90 (* Z *))      \* [a-zA-Z]
\* \d: the decimal digits, here ASCII and full-width
Digits == (48 (* 0 *)..57 (* 9 *)) \cup FullwidthDigits

\* stopwords of _extract_keywords
QA_STOPWORDS ==
    {<<12377, 12427>> (* する *), <<12394, 12427>> (* なる *), <<12354, 12427>> (* ある *), <<12356, 12427>> (* いる *), <<12428, 12427>> (* れる *), <<12425, 12428, 12427>> (* られる *), <<12371, 12392>> (* こと *), <<12418, 12398>> (* もの *)}

\* QueryAnalyzer._extract_keywords: the matches of the four patterns, one
\* pattern after the other, without the stopwords and without duplicates.
QA_extract_keywords(query) ==
    LET matches == FindAllRuns(query, KanjiOrLongVowel, 2)
                   \o FindAllRuns(query, Katakana, 2)
                   \o FindAllRuns(query, AsciiLetters, 1)
                   \o FindAllRuns(query, Digits, 1)
    IN  Dedup(Without(matches, QA_STOPWORDS))

\* QueryAnalyzer._expand_synonyms.  The code builds each list from a set, in
\* no particular order: the model keeps the set.  Only the keywords that have
\* a synonym are keys of the result.
QA_expand_synonyms(keywords) ==
    LET Entries == ItemsOf(QA_SYNONYM_DICT)
        Related(keyword) ==
            UNION {ItemsOf(e.syns) \cup {e.base} : e \in
                {e \in Entries :
                    \/ keyword = e.base
                    \/ keyword \in ItemsOf(e.syns)
                    \/ (Len(keyword) >= 2 /\ Contains(e.base, keyword))}}
        Synonyms(keyword) == Related(keyword) \ {keyword}
    IN  [k \in {k \in ItemsOf(keywords) : Synonyms(k) # {}} |-> Synonyms(k)]

\* QueryAnalyzer._determine_query_type
RECURSIVE FirstMatchingType(_, _)
FirstMatchingType(table, query_lower) ==
    IF table = << >> THEN <<19968, 33324>> (* 一般 *)
    ELSE IF \E i \in 1..Len(Head(table).patterns) :
                Contains(query_lower, Head(table).patterns[i])
         THEN Head(table).type
         ELSE FirstMatchingType(Tail(table), query_lower)

determine_query_type(query) ==
    FirstMatchingType(QUERY_PATTERNS, LowerStr(query))

\* QueryAnalyzer._extract_context_keywords, over self.context_history
RECURSIVE ContextKeywordsOf(_)
ContextKeywordsOf(entries) ==
    IF entries = << >> THEN << >>
    ELSE FirstN(QA_extract_keywords(normalize_query(Head(entries))), 2)
            \o ContextKeywordsOf(Tail(entries))

extract_context_keywords(context_history) ==
    Dedup(ContextKeywordsOf(LastN(context_history, 3)))

\* The QueryIntent that QueryAnalyzer.analyze returns once it has updated
\* self.context_history.
QueryIntent(query, context_history) ==
    LET normalized == normalize_query(query)
        keywords   == QA_extract_keywords(normalized)
    IN  [original_query   |-> query,
         normalized_query |-> normalized,
         keywords         |-> keywords,
         synonyms         |-> QA_expand_synonyms(keywords),
         query_type       |-> determine_query_type(normalized),
         context_keywords |-> extract_context_keywords(context_history)]

(***************************************************************************)
(* pdf/search_intelligent.py: the intent of a query                        *)
(***************************************************************************)

\* INTENT_PATTERNS, in the order of the dict.
INTENT_PATTERNS_Mutant == <<
    [type |-> "condition", patterns |-> <<<<26465, 20214>> (* 条件 *), <<35201, 20214>> (* 要件 *), <<23550, 35937>> (* 対象 *), <<36039, 26684>> (* 資格 *), <<12391, 12365, 12427>> (* できる *)>>],
    [type |-> "procedure", patterns |-> <<<<25163, 32154, 12365>> (* 手続き *), <<30003, 35531>> (* 申請 *), <<26041, 27861>> (* 方法 *), <<12420, 12426, 26041>> (* やり方 *), <<12393, 12358, 12420, 12387, 12390>> (* どうやって *)>>],
    [type |-> "definition", patterns |-> <<<<12392, 12399>> (* とは *), <<12395, 12388, 12356, 12390>> (* について *), <<25945, 12360, 12390>> (* 教えて *), <<35500, 26126>> (* 説明 *)>>],
    [type |-> "period", patterns |-> <<<<26399, 38291>> (* 期間 *), <<12356, 12388, 12414, 12391>> (* いつまで *), <<20309, 26085>> (* 何日 *), <<20309, 12534, 26376>> (* 何ヶ月 *), <<20309, 24180>> (* 何年 *)>>],
    [type |-> "benefit", patterns |-> <<<<32102, 20184>> (* 給付 *), <<25163, 24403>> (* 手当 *), <<32102, 19982>> (* 給与 *), <<12362, 37329>> (* お金 *), <<25903, 32102>> (* 支給 *)>>] >>
INTENT_PATTERNS == <<
    [type |-> "definition", patterns |-> <<<<12392, 12399>> (* とは *), <<12395, 12388, 12356, 12390>> (* について *), <<25945, 12360, 12390>> (* 教えて *), <<35500, 26126>> (* 説明 *)>>],
    [type |-> "condition", patterns |-> <<<<26465, 20214>> (* 条件 *), <<35201, 20214>> (* 要件 *), <<23550, 35937>> (* 対象 *), <<36039, 26684>> (* 資格 *), <<12391, 12365, 12427>> (* できる *)>>],
    [type |-> "procedure", patterns |-> <<<<25163, 32154, 12365>> (* 手続き *), <<30003, 35531>> (* 申請 *), <<26041, 27861>> (* 方法 *), <<12420, 12426, 26041>> (* やり方 *), <<12393, 12358, 12420, 12387, 12390>> (* どうやって *)>>],
    [type |-> "period", patterns |-> <<<<26399, 38291>> (* 期間 *), <<12356, 12388, 12414, 12391>> (* いつまで *), <<20309, 26085>> (* 何日 *), <<20309, 12534, 26376>> (* 何ヶ月 *), <<20309, 24180>> (* 何年 *)>>],
    [type |-> "benefit", patterns |-> <<<<32102, 20184>> (* 給付 *), <<25163, 24403>> (* 手当 *), <<32102, 19982>> (* 給与 *), <<12362, 37329>> (* お金 *), <<25903, 32102>> (* 支給 *)>>] >>

\* for intent_type, keywords in INTENT_PATTERNS.items(): ...
RECURSIVE FirstMatchingIntent(_, _)
FirstMatchingIntent(table, query_lower) ==
    IF table = << >> THEN "none"
    ELSE IF \E i \in 1..Len(Head(table).patterns) :
                Contains(query_lower, Head(table).patterns[i])
         THEN Head(table).type
         ELSE FirstMatchingIntent(Tail(table), query_lower)

analyze_query_intent(query) ==
    LET matched == FirstMatchingIntent(INTENT_PATTERNS, LowerStr(query))
    IN  IF matched # "none" THEN matched
        ELSE IF Contains(query, <<65311>> (* ？ *)) \/ Contains(query, <<63>> (* ? *)) THEN "definition"
        ELSE "general"

(***************************************************************************)
(* Normalisation of one text                                               *)
(***************************************************************************)

\* The parts of the state a specification does not use stay as they are here.
NormIdle == nt_text = << >> /\ nt_result = << >> /\ nt_called = "no"

NoIntent ==
    [original_query |-> << >>, normalized_query |-> << >>, keywords |-> << >>,
     synonyms |-> << >>, query_type |-> << >>, context_keywords |-> << >>]

QueryIdle ==
    sq_query = << >> /\ sq_phase = "input" /\ sq_intent = NoIntent /\ sq_class = "none"

\* Before the first call of analyze.
NoCall ==
    [made |-> FALSE, query |-> << >>, given |-> FALSE, context |-> << >>,
     intent |-> NoIntent]

\* QueryAnalyzer.__init__: self.context_history = []
AnalyzerIdle ==
    /\ lists = [l \in {"own", "caller"} |-> << >>]
    /\ qa_history = "own"
    /\ qa_call = NoCall

\* No index, no search made.
NoSearch ==
    [made |-> FALSE, engine |-> "none", query |-> << >>, top_k |-> 0,
     min_score |-> 0, allowed_files |-> << >>, strict |-> FALSE,
     fuzz |-> 0, result |-> << >>, context |-> << >>, raised |-> FALSE]

SearchIdle ==
    /\ index_exists = FALSE
    /\ index_readable = FALSE
    /\ pages = << >>
    /\ sr_call = NoSearch

\* No scoring function, make_snippet or merge_ranges is called.
NoPage == [file_name |-> << >>, page_no |-> 0, text |-> << >>, section |-> << >>]
NoScoreInput == [query |-> << >>, row |-> NoPage, boost |-> FALSE, fuzz |-> 0]
NoSnippetInput ==
    [text |-> << >>, query |-> << >>, window |-> 0, max_length |-> 0,
     show_all_matches |-> FALSE]
NoSnippet == [made |-> FALSE, excerpt |-> << >>, start |-> 0, end |-> 0]
NoRanges == [made |-> FALSE, ranges |-> << >>]

ScoreIdle == sc_input = NoScoreInput /\ sc_results = {}
SnippetIdle == sn_input = NoSnippetInput /\ sn_result = NoSnippet
RangesIdle == mr_ranges = << >> /\ mr_result = NoRanges

\* No highlighter, search_with_llm or _calculate_proximity_bonus is called,
\* and there is no session.
NoHighlightInput == [fn |-> "none", text |-> << >>, terms |-> << >>]
NoLLMCall ==
    [made |-> FALSE, hits |-> FALSE, use_llm |-> "None", provider |-> "none",
     config_loads |-> FALSE, api_fails |-> FALSE, answer_by |-> "none",
     llm_used |-> FALSE]
NoProximityInput == [text |-> << >>, keywords |-> << >>]
NoProximity == [made |-> FALSE, bonus |-> 0]
NoSession == [authenticated |-> FALSE, login_attempts |-> 0, lockout_until |-> 0]
NoAuthCall ==
    [made |-> FALSE, before |-> NoSession, now |-> 0, password_ok |-> FALSE,
     returned |-> FALSE, after |-> NoSession]

HighlightIdle == hl_input = NoHighlightInput /\ hl_texts = << >>
LLMIdle == llm_generator = "unset" /\ llm_call = NoLLMCall
ProximityIdle == px_input = NoProximityInput /\ px_result = NoProximity
AuthIdle ==
    /\ au_config = [max_attempts |-> 0, lockout_duration |-> 0]
    /\ au_state = NoSession
    /\ au_now = 0
    /\ au_call = NoAuthCall
AppIdle == HighlightIdle /\ LLMIdle /\ ProximityIdle /\ AuthIdle

MaxNormLen == 3

\* The characters the texts to normalise are drawn from: full-width and
\* ASCII letters and digits, removed and kept punctuation, white space, and
\* the canonical term 有給 of the synonym table.
NormAlphabet ==
    {65313 (* Ａ *), 65346 (* ｂ *), 65297 (* １ *), 65306 (* ： *), 65281 (* ！ *), 65 (* A *), 98 (* b *), 32 (*   *), 12290 (* 。 *), 26377 (* 有 *), 32102 (* 給 *)}

InitNorm ==
    /\ nt_text \in SeqsUpTo(NormAlphabet, MaxNormLen)
    /\ nt_result = << >>
    /\ nt_called = "no"
    /\ QueryIdle
    /\ AnalyzerIdle
    /\ SearchIdle
    /\ ScoreIdle
    /\ SnippetIdle
    /\ RangesIdle
    /\ AppIdle

\* normalize_text(text, expand_synonyms=False)
NormalizePlain ==
    /\ nt_called = "no"
    /\ nt_result' = normalize_text(nt_text, FALSE)
    /\ nt_called' = "plain"
    /\ UNCHANGED <<nt_text, notNormVars>>

\* normalize_text(text), expand_synonyms defaulting to True
NormalizeExpand ==
    /\ nt_called = "no"
    /\ nt_result' = normalize_text(nt_text, TRUE)
    /\ nt_called' = "expand"
    /\ UNCHANGED <<nt_text, notNormVars>>

NextNorm == NormalizePlain \/ NormalizeExpand

SpecNorm == InitNorm /\ [][NextNorm]_vars

CharsOf(s) == {s[i] : i \in 1..Len(s)}

FullwidthRemoved == Punctuation \cap FullwidthAscii

MaxQueryWords == 3

\* The words the queries are made of: a pattern of every group of the two
\* tables, a question mark, and a word of every character class of
\* _extract_keywords.
QueryWords ==
    {<<26465, 20214>> (* 条件 *), <<12392, 12399>> (* とは *), <<30003, 35531>> (* 申請 *), <<20309, 26085>> (* 何日 *), <<26399, 38480>> (* 期限 *), <<12391, 12365, 12427>> (* できる *), <<12395, 12388, 12356, 12390>> (* について *), <<32102, 19982>> (* 給与 *),
     <<12356, 12367, 12425>> (* いくら *), <<65311>> (* ？ *), <<26377, 32102>> (* 有給 *), <<12497, 12540, 12488>> (* パート *), <<80, 68, 70>> (* PDF *), <<49, 48>> (* 10 *), <<12398>> (* の *)}

\* The concatenation of a sequence of words.
RECURSIVE Concat(_)
Concat(words) == IF words = << >> THEN << >> ELSE Head(words) \o Concat(Tail(words))

InitQuery ==
    /\ \E words \in SeqsUpTo(QueryWords, MaxQueryWords) : sq_query = Concat(words)
    /\ sq_phase = "input"
    /\ sq_intent = NoIntent
    /\ sq_class = "none"
    /\ NormIdle
    /\ AnalyzerIdle
    /\ SearchIdle
    /\ ScoreIdle
    /\ SnippetIdle
    /\ RangesIdle
    /\ AppIdle

\* QueryAnalyzer().analyze(query, None): the context_history of a new
\* analyzer is empty and `if context:` leaves it so.
AnalyzeFresh ==
    /\ sq_phase = "input"
    /\ sq_intent' = QueryIntent(sq_query, << >>)
    /\ sq_phase' = "analyzed"
    /\ UNCHANGED <<sq_query, sq_class, notQueryVars>>

\* analyze_query_intent(query)
ClassifyIntent ==
    /\ sq_phase = "input"
    /\ sq_class' = analyze_query_intent(sq_query)
    /\ sq_phase' = "classified"
    /\ UNCHANGED <<sq_query, sq_intent, notQueryVars>>

NextQuery == AnalyzeFresh \/ ClassifyIntent

SpecQuery == InitQuery /\ [][NextQuery]_vars

\* The matches of re.findall(r'[Class]{minLen,}', s) with their positions: a
\* match starts where a maximal run of Class starts and is the whole run.
RunMatches(s, Class, minLen) ==
    {m \in [pos : 1..Len(s), len : minLen..Len(s)] :
        /\ m.pos + m.len - 1 <= Len(s)
        /\ \A i \in m.pos..(m.pos + m.len - 1) : s[i] \in Class
        /\ m.pos = 1 \/ s[m.pos - 1] \notin Class
        /\ m.pos + m.len - 1 = Len(s) \/ s[m.pos + m.len] \notin Class}

\* The matches of the four patterns of _extract_keywords in s, each with the
\* number of its pattern, its position and its text.
KeywordMatches(s) ==
    LET Of(n, Class, minLen) ==
            {[pattern |-> n, pos |-> m.pos, text |-> SubSeq(s, m.pos, m.pos + m.len - 1)] :
                m \in RunMatches(s, Class, minLen)}
    IN  Of(1, KanjiOrLongVowel, 2) \cup Of(2, Katakana, 2)
            \cup Of(3, AsciiLetters, 1) \cup Of(4, Digits, 1)

NoDuplicates(items) ==
    \A i, j \in 1..Len(items) : i # j => items[i] # items[j]

MatchingGroups(table, query) ==
    {table[g].type : g \in {g \in 1..Len(table) :
        \E i \in 1..Len(table[g].patterns) :
            Contains(LowerStr(query), table[g].patterns[i])}}

\* The first of `order` that is in `groups`, or `default` if none is.
RECURSIVE FirstOf(_, _, _)
FirstOf(order, groups, default) ==
    IF order = << >> THEN default
    ELSE IF Head(order) \in groups THEN Head(order)
    ELSE FirstOf(Tail(order), groups, default)

\* C9 as claimed: both classifiers return the first matching group in the
\* order condition, procedure, definition, period, benefit, and General when
\* no group matches.  (For QueryAnalyzer these are the groups 条件, 手続き, 定義,
\* 期間 and, for benefit, 金額.)
C9_SharedPriorityOrder ==
    /\ sq_phase = "classified" =>
          sq_class = FirstOf(<<"condition", "procedure", "definition", "period", "benefit">>,
                             MatchingGroups(INTENT_PATTERNS, sq_query), "general")
    /\ sq_phase = "analyzed" =>
          sq_intent.query_type
            = FirstOf(<<<<26465, 20214>> (* 条件 *), <<25163, 32154, 12365>> (* 手続き *), <<23450, 32681>> (* 定義 *), <<26399, 38291>> (* 期間 *), <<37329, 38989>> (* 金額 *)>>,
                      MatchingGroups(QUERY_PATTERNS, sq_intent.normalized_query), <<19968, 33324>> (* 一般 *))

\* C9 (amended): each classifier returns the first matching group in the
\* order of its own table: QueryAnalyzer._determine_query_type in the order
\* 条件, 手続き, 定義, 期限, 金額, 期間, 可否 and 一般 when no group matches;
\* analyze_query_intent in the order definition, condition, procedure,
\* period, benefit, and when no group matches definition for a query with a
\* question mark and general otherwise.
C9_OwnTableOrder ==
    /\ sq_phase = "classified" =>
          sq_class = FirstOf(<<"definition", "condition", "procedure", "period", "benefit">>,
                             MatchingGroups(INTENT_PATTERNS, sq_query),
                             IF 65311 (* ？ *) \in CharsOf(sq_query) \/ 63 (* ? *) \in CharsOf(sq_query)
                             THEN "definition" ELSE "general")
    /\ sq_phase = "analyzed" =>
          sq_intent.query_type
            = FirstOf(<<<<26465, 20214>> (* 条件 *), <<25163, 32154, 12365>> (* 手続き *), <<23450, 32681>> (* 定義 *), <<26399, 38480>> (* 期限 *), <<37329, 38989>> (* 金額 *), <<26399, 38291>> (* 期間 *), <<21487, 21542>> (* 可否 *)>>,
                      MatchingGroups(QUERY_PATTERNS, sq_intent.normalized_query), <<19968, 33324>> (* 一般 *))

\* C9 witness: a query with patterns of two groups (条件 and とは) has been
\* classified.
C9_Witness ==
    /\ sq_phase = "classified"
    /\ sq_query = <<26377, 32102, 26465, 20214, 12392, 12399>> (* 有給条件とは *)
    /\ sq_class = "definition"

(***************************************************************************)
(* One QueryAnalyzer and its caller                                        *)
(***************************************************************************)

\* The caller's list and every list of the model is at most this long.
MaxContextLen == 3

\* The queries of the conversation: one with three keywords (有給休暇, 申請,
\* PDF) and one with one (パート).
AnalyzerQueries == {<<26377, 32102, 20241, 26247, 12398, 30003, 35531, 80, 68, 70>> (* 有給休暇の申請PDF *), <<12497, 12540, 12488>> (* パート *)}

InitAnalyzer ==
    /\ AnalyzerIdle
    /\ NormIdle
    /\ QueryIdle
    /\ SearchIdle
    /\ ScoreIdle
    /\ SnippetIdle
    /\ RangesIdle
    /\ AppIdle

\* QueryAnalyzer.analyze(query, context), where context is None or the
\* caller's list.  `self.context_history = context` makes the analyzer refer
\* to the caller's list itself.
Analyze(query, context) ==
    LET history == IF context # "None" /\ lists[context] # << >>
                   THEN context ELSE qa_history
    IN  /\ qa_history' = history
        /\ qa_call' = [made    |-> TRUE,
                       query   |-> query,
                       given   |-> context # "None",
                       context |-> IF context = "None" THEN << >> ELSE lists[context],
                       intent  |-> QueryIntent(query, lists[history])]
        /\ UNCHANGED <<lists, notAnalyzerVars>>

\* The number of entries QueryAnalyzer.add_to_context keeps.
HistoryLimit == 10

\* QueryAnalyzer.add_to_context(query)
AddToContext(query, maxLen) ==
    /\ Len(lists[qa_history]) < maxLen
    /\ LET appended == Append(lists[qa_history], query)
       IN  lists' = [lists EXCEPT ![qa_history] =
                        IF Len(appended) > HistoryLimit THEN Tail(appended)
                        ELSE appended]
    /\ UNCHANGED <<qa_history, qa_call, notAnalyzerVars>>

\* The caller records a query in its own list
\* (st.session_state.conversation_context.append(query)).
CallerAppend(query, maxLen) ==
    /\ Len(lists["caller"]) < maxLen
    /\ lists' = [lists EXCEPT !["caller"] = Append(@, query)]
    /\ UNCHANGED <<qa_history, qa_call, notAnalyzerVars>>

NextAnalyzer ==
    \/ \E q \in AnalyzerQueries, c \in {"None", "caller"} : Analyze(q, c)
    \/ \E q \in AnalyzerQueries : AddToContext(q, MaxContextLen)
    \/ \E q \in AnalyzerQueries : CallerAppend(q, MaxContextLen)

SpecAnalyzer == InitAnalyzer /\ [][NextAnalyzer]_vars

\* C7 as claimed: the context_keywords of analyze(query, context) come from
\* the last 3 entries of the context argument of that call, at most 2
\* keywords of each, without duplicates; they are empty when context is None
\* or an empty list.
C7_ContextKeywordsFromArgument ==
    qa_call.made =>
        qa_call.intent.context_keywords
            = Dedup(ContextKeywordsOf(LastN(qa_call.context, 3)))

(***************************************************************************)
(* app_advanced.py: process_query and the conversation history             *)
(***************************************************************************)

\* The longest conversation_context followed.
MaxHistoryLen == 12

HistoryQueries == {<<12497, 12540, 12488>> (* パート *)}

\* process_query(query) with a search engine, where use_context is the
\* checkbox of the sidebar and `fails` tells whether the search or the
\* answer generation raises: analyze(query, context), then, unless an
\* exception sent the handler to its except branch,
\* query_analyzer.add_to_context(query) and
\* conversation_context.append(query).
process_query(query, use_context, fails) ==
    LET context == IF use_context THEN "caller" ELSE "None"
        history == IF context # "None" /\ lists[context] # << >>
                   THEN context ELSE qa_history
        appended == Append(lists[history], query)
        added == [lists EXCEPT ![history] =
                     IF Len(appended) > HistoryLimit THEN Tail(appended)
                     ELSE appended]
    IN  /\ Len(lists["caller"]) + 2 <= MaxHistoryLen
        /\ qa_history' = history
        /\ qa_call' = [made    |-> TRUE,
                       query   |-> query,
                       given   |-> context # "None",
                       context |-> IF context = "None" THEN << >> ELSE lists[context],
                       intent  |-> QueryIntent(query, lists[history])]
        /\ lists' = IF fails THEN lists
                    ELSE [added EXCEPT !["caller"] = Append(@, query)]
        /\ UNCHANGED notAnalyzerVars

\* The button that clears the history: conversation_context = [] and
\* query_analyzer = QueryAnalyzer(), a new analyzer with a list of its own.
ClearContext ==
    /\ lists["caller"] # << >>
    /\ lists' = [l \in {"own", "caller"} |-> << >>]
    /\ qa_history' = "own"
    /\ UNCHANGED <<qa_call, notAnalyzerVars>>

NextHistory ==
    \/ \E q \in HistoryQueries, c \in {"None", "caller"} : Analyze(q, c)
    \/ \E q \in HistoryQueries : AddToContext(q, MaxHistoryLen)
    \/ \E q \in HistoryQueries, use_context, fails \in BOOLEAN :
            process_query(q, use_context, fails)
    \/ ClearContext

SpecHistory == InitAnalyzer /\ [][NextHistory]_vars

\* C25 as claimed: after any sequence of analyze() and add_to_context()
\* calls (process_query makes one of each), context_history holds at most
\* 10 entries.
C25_HistoryAtMostTen == Len(lists[qa_history]) <= HistoryLimit

\* C26 as claimed: add_to_context leaves the list a caller passed to
\* analyze() as it was, and a process_query that reaches its end adds its
\* query to conversation_context exactly once.
C26_CallerListUntouched ==
    [][/\ (\E q \in HistoryQueries : AddToContext(q, MaxHistoryLen))
            => lists'["caller"] = lists["caller"]
       /\ \A q \in HistoryQueries, use_context \in BOOLEAN :
            process_query(q, use_context, FALSE)
                => lists'["caller"] = Append(lists["caller"], q)]_vars

(***************************************************************************)
(* The index and the hits of a search                                      *)
(***************************************************************************)

\* The rows of the table `pages`.  A row is (file_name, page_no, text,
\* section); file_path is carried along unread and left out.  A section
\* that is None or '' is << >>: the code only tests `if section:`.
PageKeys ==
    {<<<<23601, 26989, 35215, 21063, 46, 112, 100, 102>> (* 就業規則.pdf *), 1>>, <<<<23601, 26989, 35215, 21063, 46, 112, 100, 102>> (* 就業規則.pdf *), 2>>, <<<<12497, 12540, 12488, 35215, 31243, 46, 112, 100, 102>> (* パート規程.pdf *), 1>>}
PageTexts == {<<27531, 26989, 12398, 30003, 35531>> (* 残業の申請 *), <<31532, 50, 26465, 32, 26377, 32102, 20241, 26247>> (* 第2条 有給休暇 *)}
\* (text, section)
PageContents ==
    {<<<<27531, 26989, 12398, 30003, 35531>> (* 残業の申請 *), <<27531, 26989>> (* 残業 *)>>,
     <<<<31532, 50, 26465, 32, 26377, 32102, 20241, 26247>> (* 第2条 有給休暇 *), << >> >>, <<<<31532, 50, 26465, 32, 26377, 32102, 20241, 26247>> (* 第2条 有給休暇 *), <<31532, 53, 26465>> (* 第5条 *)>>}

Rows ==
    {[file_name |-> k[1], page_no |-> k[2], text |-> c[1], section |-> c[2]] :
        k \in PageKeys, c \in PageContents}

\* UNIQUE(file_name, page_no)
UniqueKeys(rows) ==
    \A i, j \in 1..Len(rows) :
        (rows[i].file_name = rows[j].file_name
            /\ rows[i].page_no = rows[j].page_no) => i = j

MaxPages == 3
Tables == {rows \in SeqsUpTo(Rows, MaxPages) : UniqueKeys(rows)}

\* rapidfuzz is not part of the repository: fuzz.partial_ratio is a function
\* of its two strings with values in 0..100, which is 100 when one string
\* occurs in the other and 0 when the strings share no character.  Its
\* value on the other pairs is not fixed by these laws: a call of a search
\* draws one value `fuzz` from FuzzValues for all of them.
FuzzValues == {0, 65, 75}

partial_ratio(fuzz, s1, s2) ==
    IF s1 = << >> /\ s2 = << >> THEN fuzz
    ELSE IF s1 = << >> \/ s2 = << >> THEN 0
    ELSE IF Contains(s2, s1) \/ Contains(s1, s2) THEN 100
    ELSE IF ItemsOf(s1) \cap ItemsOf(s2) = {} THEN 0
    ELSE fuzz

SearchHit(row, score) ==
    [file_name |-> row.file_name, page_no |-> row.page_no, score |-> score,
     text |-> row.text, section |-> row.section]

\* hits.sort(key=lambda x: x.score, reverse=True): list.sort is stable, also
\* with reverse=True, so hits of equal score keep their order.
InsertByScoreMutant(sorted, hit) ==
    LET n == Cardinality({i \in 1..Len(sorted) : sorted[i].score > hit.score})
    IN  SubSeq(sorted, 1, n) \o <<hit>> \o SubSeq(sorted, n + 1, Len(sorted))

InsertByScore(sorted, hit) ==
    LET n == Cardinality({i \in 1..Len(sorted) : sorted[i].score >= hit.score})
    IN  SubSeq(sorted, 1, n) \o <<hit>> \o SubSeq(sorted, n + 1, Len(sorted))

RECURSIVE SortByScore(_)
SortByScore(hits) ==
    IF hits = << >> THEN << >>
    ELSE InsertByScore(SortByScore(SubSeq(hits, 1, Len(hits) - 1)),
                       hits[Len(hits)])

(***************************************************************************)
(* pdf/search_strict.py: search_strict                                     *)
(***************************************************************************)

\* _normalize of search_strict.py: the same steps as normalize_text
strict_normalize(text, expand_synonyms) ==
    LET collapsed ==
            Strip(SubWhitespace(SubPunctuation(LowerStr(ToHalfwidth(text)))))
    IN  IF expand_synonyms THEN ExpandSynonyms(collapsed, SYNONYMS)
        ELSE collapsed

\* [\d一二三四五六七八九十]
ArticleDigits ==
    Digits \cup {19968 (* 一 *), 20108 (* 二 *), 19977 (* 三 *), 22235 (* 四 *), 20116 (* 五 *), 20845 (* 六 *), 19971 (* 七 *), 20843 (* 八 *),
                 20061 (* 九 *), 21313 (* 十 *)}

\* re.search(r'第[\d一二三四五六七八九十]+条', section)
HasArticleHeading(section) ==
    \E i \in 1..Len(section) :
        /\ section[i] = 31532 (* 第 *)
        /\ LET rest == SubSeq(section, i + 1, Len(section))
               n == PrefixLen(rest, ArticleDigits)
           IN  n >= 1 /\ n < Len(rest) /\ rest[n + 1] = 26465 (* 条 *)

\* The score of one row: partial_ratio plus the section bonus.
strict_score(query_normalized, row, fuzz) ==
    LET base == partial_ratio(fuzz, query_normalized,
                              strict_normalize(row.text, TRUE))
        section_normalized == strict_normalize(row.section, FALSE)
    IN  IF row.section # << >>
           /\ (Contains(section_normalized, query_normalized)
                \/ HasArticleHeading(row.section))
        THEN base + 5
        ELSE base

AllowedFileMutant(file_name, allowed_files) == TRUE

\* not (allowed_files and not any(af in file_name for af in allowed_files))
AllowedFile(file_name, allowed_files) ==
    allowed_files = << >>
        \/ \E i \in 1..Len(allowed_files) : Contains(file_name, allowed_files[i])

\* The loop over the cursor: the hits of the allowed rows with score > 0.
RECURSIVE StrictHits(_, _, _, _)
StrictHits(rows, query_normalized, allowed_files, fuzz) ==
    IF rows = << >> THEN << >>
    ELSE LET row == Head(rows)
             rest == StrictHits(Tail(rows), query_normalized, allowed_files, fuzz)
             score == strict_score(query_normalized, row, fuzz)
         IN  IF ~AllowedFile(row.file_name, allowed_files) THEN rest
             ELSE IF score > 0 THEN <<SearchHit(row, score)>> \o rest
             ELSE rest

\* [h for h in hits if h.score >= bound]
RECURSIVE ScoreAtLeast(_, _)
ScoreAtLeast(hits, bound) ==
    IF hits = << >> THEN << >>
    ELSE (IF Head(hits).score >= bound THEN <<Head(hits)>> ELSE << >>)
            \o ScoreAtLeast(Tail(hits), bound)

StrictBandsMutant(hits, top_k) == FirstN(hits, top_k)

\* The thresholds of strict mode, applied to the sorted hits.
StrictBands(hits, top_k) ==
    LET top_score == hits[1].score
    IN  IF top_score >= 80 THEN FirstN(hits, 1)
        ELSE IF 70 <= top_score /\ top_score < 80
             THEN ScoreAtLeast(FirstN(hits, 2), 70)
        ELSE << >>

search_strict(query, top_k, allowed_files, strict, fuzz) ==
    IF query = << >> THEN << >>
    ELSE IF ~index_exists THEN << >>
    ELSE LET query_normalized == strict_normalize(query, TRUE)
             hits == SortByScore(
                        StrictHits(pages, query_normalized, allowed_files, fuzz))
         IN  IF strict /\ hits # << >> THEN StrictBands(hits, top_k)
             ELSE FirstN(hits, top_k)

(***************************************************************************)
(* One call of search_strict on an index                                   *)
(***************************************************************************)

SearchQueries == {<< >>, <<27531, 26989>> (* 残業 *), <<26377, 32102>> (* 有給 *)}
TopKs == {0, 1, 2}
\* allowed_files: the default of search_strict, and no restriction
AllowedFilesChoices == {<<<<23601, 26989, 35215, 21063>> (* 就業規則 *), <<32102, 19982>> (* 給与 *)>>, << >>}

\* The index file is missing, or it holds a table.
InitIndex ==
    \/ index_exists = FALSE /\ index_readable = FALSE /\ pages = << >>
    \/ index_exists = TRUE /\ index_readable = TRUE /\ pages \in Tables

InitStrict ==
    /\ InitIndex
    /\ sr_call = NoSearch
    /\ NormIdle
    /\ QueryIdle
    /\ AnalyzerIdle
    /\ ScoreIdle
    /\ SnippetIdle
    /\ RangesIdle
    /\ AppIdle

SearchStrict(query, top_k, allowed_files, strict, fuzz) ==
    /\ ~sr_call.made
    /\ sr_call' =
        [made |-> TRUE, engine |-> "search_strict", query |-> query,
         top_k |-> top_k, min_score |-> 0, allowed_files |-> allowed_files,
         strict |-> strict, fuzz |-> fuzz,
         result |-> search_strict(query, top_k, allowed_files, strict, fuzz),
         context |-> << >>, raised |-> FALSE]
    /\ UNCHANGED <<index_exists, index_readable, pages, notSearchVars>>

NextStrict ==
    \E query \in SearchQueries, top_k \in TopKs,
       allowed_files \in AllowedFilesChoices, strict \in BOOLEAN,
       fuzz \in FuzzValues :
        SearchStrict(query, top_k, allowed_files, strict, fuzz)

SpecStrict == InitStrict /\ [][NextStrict]_vars

\* The call made, and the sorted hits it ranked.
StrictCall == sr_call.made /\ sr_call.engine = "search_strict"
StrictRanked ==
    SortByScore(StrictHits(pages, strict_normalize(sr_call.query, TRUE),
                           sr_call.allowed_files, sr_call.fuzz))
StrictModeRanked ==
    StrictCall /\ sr_call.strict /\ sr_call.query # << >> /\ index_exists
        /\ StrictRanked # << >>

C4_WitnessSecondBand ==
    /\ StrictModeRanked
    /\ StrictRanked[1].score = 70
    /\ Len(StrictRanked) = 3 /\ StrictRanked[2].score = 65
    /\ Len(sr_call.result) = 1

\* C5 as claimed: search_strict never returns more than top_k hits, with
\* strict mode on or off.
C5_AtMostTopK == StrictCall => Len(sr_call.result) <= sr_call.top_k

\* C6: with a non-empty allowed_files every hit of search_strict is from a
\* file whose name contains one of the allowed substrings, in strict and
\* non-strict mode.
C6_OnlyAllowedFiles ==
    (StrictCall /\ sr_call.allowed_files # << >>) =>
        \A i \in 1..Len(sr_call.result) :
            \E j \in 1..Len(sr_call.allowed_files) :
                Contains(sr_call.result[i].file_name, sr_call.allowed_files[j])

\* A non-strict call with the default allowed_files on an index that holds a
\* page of another file which would score: the page is not in the result.
C6_Witness ==
    /\ StrictCall /\ ~sr_call.strict /\ sr_call.allowed_files # << >>
    /\ sr_call.result # << >>
    /\ \E i \in 1..Len(pages) :
        /\ pages[i].file_name = <<12497, 12540, 12488, 35215, 31243, 46, 112, 100, 102>> (* パート規程.pdf *)
        /\ strict_score(strict_normalize(sr_call.query, TRUE), pages[i],
                        sr_call.fuzz) >= 100

(***************************************************************************)
(* pdf/search.py: extract_keywords, calculate_score, search                *)
(***************************************************************************)

\* Python: re.split of s on literal alternatives, of which the first in
\* the order of `seps` that matches at a position is taken; `piece` is the
\* part read since the last separator.
RECURSIVE SplitLiteral(_, _, _)
SplitLiteral(s, seps, piece) ==
    IF s = << >> THEN <<piece>>
    ELSE LET matching == {i \in 1..Len(seps) :
                            /\ Len(seps[i]) <= Len(s)
                            /\ SubSeq(s, 1, Len(seps[i])) = seps[i]}
         IN  IF matching = {}
             THEN SplitLiteral(Tail(s), seps, Append(piece, Head(s)))
             ELSE LET first == CHOOSE i \in matching : \A j \in matching : i <= j
                  IN  <<piece>>
                        \o SplitLiteral(SubSeq(s, Len(seps[first]) + 1, Len(s)),
                                        seps, << >>)

\* Python: re.split(r'[Class]+', s)
RECURSIVE SplitRuns(_, _, _)
SplitRuns(s, Class, piece) ==
    IF s = << >> THEN <<piece>>
    ELSE LET n == PrefixLen(s, Class)
         IN  IF n = 0 THEN SplitRuns(Tail(s), Class, Append(piece, Head(s)))
             ELSE <<piece>> \o SplitRuns(SubSeq(s, n + 1, Len(s)), Class, << >>)

\* synonym_map of get_synonyms
SYNONYM_MAP == <<
    [word |-> <<26178, 38291, 22806, 21172, 20685>> (* 時間外労働 *), syns |-> {<<26178, 38291, 22806, 21220, 21209>> (* 時間外勤務 *), <<27531, 26989>> (* 残業 *), <<12458, 12540, 12496, 12540, 12479, 12452, 12512>> (* オーバータイム *)}],
    [word |-> <<26178, 38291, 22806, 21220, 21209>> (* 時間外勤務 *), syns |-> {<<26178, 38291, 22806, 21172, 20685>> (* 時間外労働 *), <<27531, 26989>> (* 残業 *), <<12458, 12540, 12496, 12540, 12479, 12452, 12512>> (* オーバータイム *)}],
    [word |-> <<27531, 26989>> (* 残業 *), syns |-> {<<26178, 38291, 22806, 21172, 20685>> (* 時間外労働 *), <<26178, 38291, 22806, 21220, 21209>> (* 時間外勤務 *), <<12458, 12540, 12496, 12540, 12479, 12452, 12512>> (* オーバータイム *)}],
    [word |-> <<32102, 19982>> (* 給与 *), syns |-> {<<32102, 26009>> (* 給料 *), <<36035, 37329>> (* 賃金 *), <<22577, 37228>> (* 報酬 *), <<12469, 12521, 12522, 12540>> (* サラリー *)}],
    [word |-> <<32102, 26009>> (* 給料 *), syns |-> {<<32102, 19982>> (* 給与 *), <<36035, 37329>> (* 賃金 *), <<22577, 37228>> (* 報酬 *), <<12469, 12521, 12522, 12540>> (* サラリー *)}],
    [word |-> <<20241, 26247>> (* 休暇 *), syns |-> {<<20241, 12415>> (* 休み *), <<20241, 26085>> (* 休日 *), <<12507, 12522, 12487, 12540>> (* ホリデー *)}],
    [word |-> <<32946, 20816>> (* 育児 *), syns |-> {<<23376, 32946, 12390>> (* 子育て *), <<12481, 12515, 12452, 12523, 12489, 12465, 12450>> (* チャイルドケア *)}],
    [word |-> <<21220, 21209>> (* 勤務 *), syns |-> {<<21172, 20685>> (* 労働 *), <<20181, 20107>> (* 仕事 *), <<12527, 12540, 12463>> (* ワーク *)}],
    [word |-> <<21172, 20685>> (* 労働 *), syns |-> {<<21220, 21209>> (* 勤務 *), <<20181, 20107>> (* 仕事 *), <<12527, 12540, 12463>> (* ワーク *)}] >>

\* get_synonyms returns list(set(...)): the word and its synonyms, in an
\* order that no caller depends on.
get_synonyms(word) ==
    {word} \cup UNION {SYNONYM_MAP[i].syns :
                        i \in {j \in 1..Len(SYNONYM_MAP) : SYNONYM_MAP[j].word = word}}

SEARCH_STOPWORDS ==
    {<<12398>> (* の *), <<12399>> (* は *), <<12364>> (* が *), <<12434>> (* を *), <<12395>> (* に *), <<12391>> (* で *), <<12392>> (* と *), <<12363, 12425>> (* から *), <<12414, 12391>> (* まで *),
     <<12395, 12388, 12356, 12390>> (* について *), <<12395, 38306, 12375, 12390>> (* に関して *), <<12392, 12399>> (* とは *), <<12387, 12390>> (* って *), <<12391, 12377>> (* です *), <<12414, 12377>> (* ます *), <<25945, 12360, 12390>> (* 教えて *),
     <<65311>> (* ？ *), <<63>> (* ? *), <<26465, 20214>> (* 条件 *), <<12367, 12384, 12373, 12356>> (* ください *), <<25945, 12360, 12390, 12367, 12384, 12373, 12356>> (* 教えてください *), <<30693, 12426, 12383, 12356>> (* 知りたい *),
     <<25945, 12360, 12427>> (* 教える *), <<12362, 12375, 12360, 12390>> (* おしえて *), <<25945, 12360, 12390, 19979, 12373, 12356>> (* 教えて下さい *)}

\* r'について|に関して|とは|は？|は'
PartSeparators == <<<<12395, 12388, 12356, 12390>> (* について *), <<12395, 38306, 12375, 12390>> (* に関して *), <<12392, 12399>> (* とは *), <<12399, 65311>> (* は？ *), <<12399>> (* は *)>>

\* [\s、。,.\-　の]
WordSeparators == Whitespace \cup {12289 (* 、 *), 12290 (* 。 *), 44 (* , *), 46 (* . *), 45 (* - *), 12398 (* の *)}

COMPOUND_PATTERNS ==
    {<<26178, 38291, 22806, 21172, 20685>> (* 時間外労働 *), <<26178, 38291, 22806, 21220, 21209>> (* 時間外勤務 *), <<26377, 32102, 20241, 26247>> (* 有給休暇 *), <<32946, 20816, 20241, 26989>> (* 育児休業 *), <<32946, 20241>> (* 育休 *), <<29987, 20241>> (* 産休 *),
     <<26178, 30701, 21220, 21209>> (* 時短勤務 *), <<32102, 19982, 25903, 25173>> (* 給与支払 *), <<12497, 12540, 12488>> (* パート *)}

\* The words of one part of the query.
WordsOfPart(part) ==
    LET stripped == Strip(part)
    IN  IF stripped = << >> \/ stripped \in SEARCH_STOPWORDS THEN {}
        ELSE {w \in {Strip(x) : x \in ItemsOf(SplitRuns(stripped, WordSeparators, << >>))} :
                w # << >> /\ w \notin SEARCH_STOPWORDS /\ Len(w) > 1}

\* extract_keywords returns list(set(all_keywords)): a list without
\* duplicates in an order that calculate_score does not depend on.
extract_keywords(query) ==
    LET query_clean ==
            Replace(Replace(Replace(Replace(query, <<65311>> (* ？ *), << >>), <<63>> (* ? *), << >>),
                            <<65281>> (* ！ *), << >>), <<33>> (* ! *), << >>)
        parts == SplitLiteral(query_clean, PartSeparators, << >>)
        base_words ==
            UNION {WordsOfPart(parts[i]) : i \in 1..Len(parts)}
                \cup {p \in COMPOUND_PATTERNS : Contains(query, p)}
        base_keywords ==
            {w \in base_words :
                /\ w # << >> /\ w \notin SEARCH_STOPWORDS /\ Len(w) > 1
                /\ ~\E stop \in {<<25945, 12360, 12390>> (* 教えて *), <<12367, 12384, 12373, 12356>> (* ください *), <<30693, 12426, 12383, 12356>> (* 知りたい *)} : Contains(w, stop)}
    IN  UNION {get_synonyms(k) : k \in base_keywords}

\* The position bonus of an occurrence at pos in a text of length len:
\* `high` in the first quarter, `low` in the first half.
PositionBonus(pos, len, high, low) ==
    IF pos < 0 THEN 0
    ELSE IF 4 * pos < len THEN high
    ELSE IF 2 * pos < len THEN low
    ELSE 0

MaxOf(S) == CHOOSE x \in S : \A y \in S : y <= x
MinOf(a, b) == IF a <= b THEN a ELSE b

SectionBonusMutant(query, section, fuzz) == 0

\* section_bonus: for a section, whether its normalised form contains the
\* normalised query or is close to it
SectionBonus(query, section, fuzz) ==
    LET query_norm == normalize_text(query, TRUE)
        section_norm == normalize_text(section, TRUE)
    IN  IF section = << >> THEN 0
        ELSE IF Contains(section_norm, query_norm) THEN 15
        ELSE IF partial_ratio(fuzz, query_norm, section_norm) > 80 THEN 10
        ELSE 0

\* exact_match_bonus: whether the normalised text contains the normalised
\* query
ExactMatchBonus(query, text) ==
    IF Contains(normalize_text(text, TRUE), normalize_text(query, TRUE))
    THEN 20
    ELSE 0

calculate_score(query, row, boost_keywords, fuzz) ==
    LET query_norm == normalize_text(query, TRUE)
        text_norm == normalize_text(row.text, TRUE)
        base_score == partial_ratio(fuzz, query_norm, text_norm)
        section_bonus == SectionBonus(query, row.section, fuzz)
        found == {k \in boost_keywords : Contains(text_norm, normalize_text(k, TRUE))}
        keyword_bonus ==
            10 * Cardinality({k \in found : Contains(query_norm, normalize_text(k, TRUE))})
            + 7 * Cardinality({k \in found : ~Contains(query_norm, normalize_text(k, TRUE))})
        exact_match_bonus == ExactMatchBonus(query, row.text)
        query_position ==
            PositionBonus(Find(text_norm, query_norm), Len(text_norm), 10, 5)
        position_bonus ==
            IF boost_keywords # {} /\ query_position = 0
            THEN MaxOf({0} \cup {PositionBonus(Find(text_norm, normalize_text(k, TRUE)),
                                               Len(text_norm), 8, 4) :
                                    k \in boost_keywords})
            ELSE query_position
    IN  MinOf(base_score + section_bonus + keyword_bonus + exact_match_bonus
                + position_bonus, 150)

\* get_all_pages: SELECT ... ORDER BY file_name, page_no
StrLess(s, t) ==
    \E i \in 1..(Len(t)) :
        /\ \A j \in 1..(i - 1) : j <= Len(s) /\ s[j] = t[j]
        /\ (i > Len(s) \/ s[i] < t[i])

KeyLess(r1, r2) ==
    \/ StrLess(r1.file_name, r2.file_name)
    \/ r1.file_name = r2.file_name /\ r1.page_no < r2.page_no

get_all_pages(rows) ==
    [i \in 1..Len(rows) |->
        CHOOSE r \in ItemsOf(rows) :
            Cardinality({x \in ItemsOf(rows) : KeyLess(x, r)}) = i - 1]

\* The loop of search over the pages: the hits with score >= min_score.
RECURSIVE SearchHits(_, _, _, _, _)
SearchHits(rows, query, keywords, min_score, fuzz) ==
    IF rows = << >> THEN << >>
    ELSE LET score == calculate_score(query, Head(rows), keywords, fuzz)
             rest == SearchHits(Tail(rows), query, keywords, min_score, fuzz)
         IN  IF score >= min_score THEN <<SearchHit(Head(rows), score)>> \o rest
             ELSE rest

\* The query that search takes the keywords from.
ExpandedQuery(query, context) ==
    IF context # << >>
       /\ \E word \in {<<21462, 12428, 12394, 12356>> (* 取れない *), <<12391, 12365, 12394, 12356>> (* できない *), <<23550, 35937, 22806>> (* 対象外 *), <<38500, 22806>> (* 除外 *)} : Contains(query, word)
    THEN IF Contains(context, <<32946>> (* 育 *)) THEN <<32946, 20816, 20241, 26989, 32, 23550, 35937, 22806, 32, 38500, 22806, 32, 26465, 20214, 32, 35201, 20214, 32, 36039, 26684>> (* 育児休業 対象外 除外 条件 要件 資格 *)
         ELSE IF Contains(context, <<26377, 32102>> (* 有給 *)) \/ Contains(context, <<26377, 20241>> (* 有休 *))
              THEN <<26377, 32102, 20241, 26247, 32, 20184, 19982, 32, 23550, 35937, 22806, 32, 26465, 20214>> (* 有給休暇 付与 対象外 条件 *)
         ELSE IF Contains(context, <<26178, 38291, 22806>> (* 時間外 *)) \/ Contains(context, <<27531, 26989>> (* 残業 *))
              THEN <<26178, 38291, 22806, 21172, 20685, 32, 21046, 38480, 32, 19978, 38480, 32, 23550, 35937, 22806>> (* 時間外労働 制限 上限 対象外 *)
         ELSE query
    ELSE query

\* get_all_pages(index_path) raises when the file is not a database with
\* the table pages.
FetchPages ==
    [raised |-> ~index_readable,
     rows |-> IF index_readable THEN get_all_pages(pages) ELSE << >>]

\* return hits, and the return [] of `except Exception as e`
ReturnHits(hits) == [raised |-> FALSE, result |-> hits]
FetchFailedMutant == [raised |-> TRUE, result |-> << >>]
FetchFailed == ReturnHits(<< >>)

\* search: what it returns, or that it raises
search_call(query, top_k, min_score, context, fuzz) ==
    IF query = << >> THEN ReturnHits(<< >>)
    ELSE IF ~index_exists THEN ReturnHits(<< >>)
    ELSE LET keywords == extract_keywords(ExpandedQuery(query, context))
             fetched == FetchPages
         IN  IF fetched.raised THEN FetchFailed
             ELSE IF fetched.rows = << >> THEN ReturnHits(<< >>)
             ELSE ReturnHits(
                      FirstN(SortByScore(SearchHits(fetched.rows, query, keywords,
                                                    min_score, fuzz)),
                             top_k))

search(query, top_k, min_score, context, fuzz) ==
    search_call(query, top_k, min_score, context, fuzz).result

(***************************************************************************)
(* pdf/search_enhanced.py: calculate_smart_score, search_enhanced          *)
(***************************************************************************)

CJK == 19968..40959                                    \* [一-鿿]

\* re.findall(r'[一-鿿]+|[a-zA-Z]+', s)
RECURSIVE FindAllWords(_)
FindAllWords(s) ==
    IF s = << >> THEN << >>
    ELSE LET kanji == PrefixLen(s, CJK)
             n == IF kanji > 0 THEN kanji ELSE PrefixLen(s, AsciiLetters)
         IN  IF n = 0 THEN FindAllWords(Tail(s))
             ELSE <<SubSeq(s, 1, n)>> \o FindAllWords(SubSeq(s, n + 1, Len(s)))

\* The number of keywords of exp_query that are at least 2 characters long
\* and occur in text_lower, each occurrence in exp_query counted.
KeywordHits(exp_query, text_lower) ==
    LET keywords == FindAllWords(exp_query)
    IN  Cardinality({i \in 1..Len(keywords) :
                        Len(keywords[i]) >= 2 /\ Contains(text_lower, keywords[i])})

ENHANCED_SYNONYM_DICT == <<
    [short |-> <<32946, 20241>> (* 育休 *), longs |-> <<<<32946, 20816, 20241, 26989>> (* 育児休業 *), <<32946, 20816, 20241, 26247>> (* 育児休暇 *)>>],
    [short |-> <<29987, 20241>> (* 産休 *), longs |-> <<<<29987, 21069, 29987, 24460, 20241, 26989>> (* 産前産後休業 *), <<29987, 21069, 29987, 24460, 20241, 26247>> (* 産前産後休暇 *), <<20986, 29987, 20241, 26247>> (* 出産休暇 *)>>],
    [short |-> <<26377, 20241>> (* 有休 *), longs |-> <<<<26377, 32102, 20241, 26247>> (* 有給休暇 *), <<24180, 27425, 26377, 32102, 20241, 26247>> (* 年次有給休暇 *), <<26377, 32102>> (* 有給 *)>>],
    [short |-> <<20171, 35703, 20241>> (* 介護休 *), longs |-> <<<<20171, 35703, 20241, 26989>> (* 介護休業 *), <<20171, 35703, 20241, 26247>> (* 介護休暇 *)>>],
    [short |-> <<26178, 30701>> (* 時短 *), longs |-> <<<<30701, 26178, 38291, 21220, 21209>> (* 短時間勤務 *), <<26178, 30701, 21220, 21209>> (* 時短勤務 *), <<26178, 38291, 30701, 32302>> (* 時間短縮 *)>>],
    [short |-> <<27531, 26989>> (* 残業 *), longs |-> <<<<26178, 38291, 22806, 21172, 20685>> (* 時間外労働 *), <<26178, 38291, 22806, 21220, 21209>> (* 時間外勤務 *), <<36229, 36942, 21220, 21209>> (* 超過勤務 *)>>],
    [short |-> <<12497, 12540, 12488>> (* パート *), longs |-> <<<<12497, 12540, 12488, 12479, 12452, 12510, 12540>> (* パートタイマー *), <<12497, 12540, 12488, 12479, 12452, 12512>> (* パートタイム *)>>] >>

\* The variants of text in which a short form found in it is replaced by
\* one of its long forms.
ShortToLong(text, table) ==
    UNION {{Replace(text, table[i].short, table[i].longs[j]) :
                j \in 1..Len(table[i].longs)} :
            i \in {k \in 1..Len(table) : Contains(text, table[k].short)}}

\* The variants of text in which a long form found in it is replaced by its
\* short form (REVERSE_SYNONYM).
LongToShort(text, table) ==
    UNION {{Replace(text, table[i].longs[j], table[i].short) :
                j \in {k \in 1..Len(table[i].longs) : Contains(text, table[i].longs[k])}} :
            i \in 1..Len(table)}

enhanced_expand_query(query) ==
    LET query_lower == LowerStr(query)
    IN  {query} \cup ShortToLong(query_lower, ENHANCED_SYNONYM_DICT)
                \cup LongToShort(query_lower, ENHANCED_SYNONYM_DICT)

\* The bonus or penalty for the file a page is from.
FileAffinity(query_lower, file_name, own, other_part, elsewhere) ==
    IF Contains(query_lower, <<32946>> (* 育 *)) \/ Contains(query_lower, <<32946, 20241>> (* 育休 *))
    THEN IF Contains(file_name, <<32946, 20816, 20171, 35703>> (* 育児介護 *)) THEN own
         ELSE IF Contains(file_name, <<12497, 12540, 12488>> (* パート *)) THEN other_part
         ELSE 0
    ELSE IF Contains(query_lower, <<12497, 12540, 12488>> (* パート *))
    THEN IF Contains(file_name, <<12497, 12540, 12488>> (* パート *)) THEN own ELSE elsewhere
    ELSE 0

\* The score of calculate_smart_score.
calculate_smart_score(query, row, fuzz) ==
    LET text_lower == LowerStr(row.text)
        query_lower == LowerStr(query)
        expanded_queries == enhanced_expand_query(query)
        max_score ==
            MaxOf({0} \cup
                {partial_ratio(fuzz, exp_query, text_lower)
                    + (IF Contains(text_lower, exp_query) THEN 30 ELSE 0)
                    + 10 * KeywordHits(exp_query, text_lower) :
                 exp_query \in expanded_queries})
        section_bonus ==
            IF row.section # << >>
               /\ \E exp_query \in expanded_queries :
                    Contains(LowerStr(row.section), exp_query)
            THEN 25
            ELSE 0
    IN  max_score + FileAffinity(query_lower, row.file_name, 40, -20, -20)
            + section_bonus

\* SearchResult of search_enhanced.py and search_intelligent.py; the
\* ranking does not read matched_terms, which are left out.
SearchResult(row, score, relevance_type) ==
    [file_name |-> row.file_name, page_no |-> row.page_no, score |-> score,
     text |-> row.text, section |-> row.section,
     relevance_type |-> relevance_type]

RECURSIVE EnhancedResults(_, _, _, _)
EnhancedResults(rows, query, min_score, fuzz) ==
    IF rows = << >> THEN << >>
    ELSE LET score == calculate_smart_score(query, Head(rows), fuzz)
             rest == EnhancedResults(Tail(rows), query, min_score, fuzz)
         IN  IF score >= min_score
             THEN <<SearchResult(Head(rows), score, "none")>> \o rest
             ELSE rest

search_enhanced(query, top_k, min_score, fuzz) ==
    IF query = << >> \/ ~index_exists THEN << >>
    ELSE FirstN(SortByScore(EnhancedResults(pages, query, min_score, fuzz)), top_k)

(***************************************************************************)
(* pdf/search_intelligent.py: calculate_intelligent_score,                 *)
(* search_intelligent                                                      *)
(***************************************************************************)

INTELLIGENT_SYNONYM_DICT == <<
    [short |-> <<32946, 20241>> (* 育休 *), longs |-> <<<<32946, 20816, 20241, 26989>> (* 育児休業 *), <<32946, 20816, 20241, 26247>> (* 育児休暇 *)>>],
    [short |-> <<29987, 20241>> (* 産休 *), longs |-> <<<<29987, 21069, 29987, 24460, 20241, 26989>> (* 産前産後休業 *), <<29987, 21069, 29987, 24460, 20241, 26247>> (* 産前産後休暇 *), <<20986, 29987, 20241, 26247>> (* 出産休暇 *)>>],
    [short |-> <<26377, 20241>> (* 有休 *), longs |-> <<<<26377, 32102, 20241, 26247>> (* 有給休暇 *), <<24180, 27425, 26377, 32102, 20241, 26247>> (* 年次有給休暇 *)>>],
    [short |-> <<26377, 32102>> (* 有給 *), longs |-> <<<<26377, 32102, 20241, 26247>> (* 有給休暇 *), <<24180, 27425, 26377, 32102, 20241, 26247>> (* 年次有給休暇 *), <<26377, 20241>> (* 有休 *)>>],
    [short |-> <<20171, 35703, 20241>> (* 介護休 *), longs |-> <<<<20171, 35703, 20241, 26989>> (* 介護休業 *), <<20171, 35703, 20241, 26247>> (* 介護休暇 *)>>],
    [short |-> <<26178, 30701>> (* 時短 *), longs |-> <<<<30701, 26178, 38291, 21220, 21209>> (* 短時間勤務 *), <<26178, 30701, 21220, 21209>> (* 時短勤務 *), <<26178, 38291, 30701, 32302>> (* 時間短縮 *)>>],
    [short |-> <<27531, 26989>> (* 残業 *), longs |-> <<<<26178, 38291, 22806, 21172, 20685>> (* 時間外労働 *), <<26178, 38291, 22806, 21220, 21209>> (* 時間外勤務 *), <<36229, 36942, 21220, 21209>> (* 超過勤務 *)>>],
    [short |-> <<12497, 12540, 12488>> (* パート *), longs |-> <<<<12497, 12540, 12488, 12479, 12452, 12510, 12540>> (* パートタイマー *), <<12497, 12540, 12488, 12479, 12452, 12512>> (* パートタイム *)>>] >>

\* clean_query = clean_query.replace(pattern, "").strip(), pattern after
\* pattern; nothing is left to remove from an empty text
RECURSIVE RemovePatterns(_, _)
RemovePatterns(text, patterns) ==
    IF text = << >> \/ patterns = << >> THEN text
    ELSE RemovePatterns(Strip(Replace(text, Head(patterns), << >>)), Tail(patterns))

RECURSIVE RemoveIntentPatterns(_, _)
RemoveIntentPatterns(text, table) ==
    IF text = << >> \/ table = << >> THEN text
    ELSE RemoveIntentPatterns(RemovePatterns(text, Head(table).patterns), Tail(table))

intelligent_expand_query(query) ==
    LET query_lower == LowerStr(query)
        without_intent == RemoveIntentPatterns(query_lower, INTENT_PATTERNS)
        clean_query ==
            Strip(Replace(Replace(without_intent, <<65311>> (* ？ *), << >>), <<63>> (* ? *), << >>))
    IN  {query} \cup ShortToLong(query_lower, INTELLIGENT_SYNONYM_DICT)
            \cup (IF clean_query # query_lower /\ clean_query # << >>
                  THEN {clean_query}
                        \cup ShortToLong(clean_query, INTELLIGENT_SYNONYM_DICT)
                  ELSE {})

\* Python: hay.count(needle), the occurrences that do not overlap
RECURSIVE Count(_, _)
Count(hay, needle) ==
    IF needle = << >> THEN Len(hay) + 1
    ELSE IF Len(hay) < Len(needle) THEN 0
    ELSE IF SubSeq(hay, 1, Len(needle)) = needle
         THEN 1 + Count(SubSeq(hay, Len(needle) + 1, Len(hay)), needle)
         ELSE Count(Tail(hay), needle)

\* The positions of the matches of r'第([Class]{1,3})条' in text.
ArticleMatches(text, Class) ==
    {i \in 1..Len(text) :
        /\ text[i] = 31532 (* 第 *)
        /\ LET rest == SubSeq(text, i + 1, Len(text))
               n == PrefixLen(rest, Class)
           IN  n \in 1..3 /\ n < Len(rest) /\ rest[n + 1] = 26465 (* 条 *)}

\* re.findall(pattern, text)[0]: the group of the first match
FirstArticle(text, Class) ==
    LET i == CHOOSE m \in ArticleMatches(text, Class) :
                \A k \in ArticleMatches(text, Class) : m <= k
        rest == SubSeq(text, i + 1, Len(text))
    IN  SubSeq(rest, 1, PrefixLen(rest, Class))

\* int(s) for a string of ASCII and full-width digits
RECURSIVE IntOf(_)
IntOf(s) ==
    IF s = << >> THEN 0
    ELSE LET last == s[Len(s)]
             digit == IF last \in FullwidthDigits THEN last - 65296 (* ０ *) ELSE last - 48 (* 0 *)
         IN  10 * IntOf(SubSeq(s, 1, Len(s) - 1)) + digit

KanjiNumerals ==
    <<19968 (* 一 *), 20108 (* 二 *), 19977 (* 三 *), 22235 (* 四 *), 20116 (* 五 *), 20845 (* 六 *), 19971 (* 七 *), 20843 (* 八 *), 20061 (* 九 *), 21313 (* 十 *)>>

\* article_num_map.get(article_str) for a string of kanji numerals; a
\* longer string makes int() raise, which gives 99.
KanjiArticleNumber(s) ==
    IF Len(s) = 1 THEN CHOOSE n \in 1..10 : KanjiNumerals[n] = s[1]
    ELSE 99

\* The article number of extract_article_info; 0 stands for None.
ArticleNumber(search_text) ==
    LET digits == (65296 (* ０ *)..65305 (* ９ *)) \cup (48 (* 0 *)..57 (* 9 *))
        kanji == ItemsOf(KanjiNumerals)
        by_digits ==
            IF ArticleMatches(search_text, digits) # {}
            THEN IntOf(FirstArticle(search_text, digits))
            ELSE 0
    IN  IF by_digits # 0 THEN by_digits
        ELSE IF ArticleMatches(search_text, kanji) # {}
             THEN KanjiArticleNumber(FirstArticle(search_text, kanji))
        ELSE 0

ArticleType(search_text) ==
    LET text_preview == LowerStr(search_text)
    IN  IF Contains(FirstN(text_preview, 200), <<30446, 30340>> (* 目的 *)) THEN <<30446, 30340>> (* 目的 *)
        ELSE IF Contains(text_preview, <<24180, 27425, 26377, 32102, 20241, 26247>> (* 年次有給休暇 *))
                \/ Contains(text_preview, <<26377, 32102, 20241, 26247>> (* 有給休暇 *)) THEN <<20241, 26247>> (* 休暇 *)
        ELSE IF Contains(text_preview, <<32946, 20816, 20241, 26989>> (* 育児休業 *))
                \/ Contains(text_preview, <<20171, 35703, 20241, 26989>> (* 介護休業 *)) THEN <<20241, 26989>> (* 休業 *)
        ELSE IF Contains(text_preview, <<23550, 35937>> (* 対象 *))
                \/ Contains(text_preview, <<12391, 12365, 12427>> (* できる *)) THEN <<23550, 35937>> (* 対象 *)
        ELSE IF Contains(text_preview, <<25163, 32154>> (* 手続 *)) \/ Contains(text_preview, <<30003, 35531>> (* 申請 *))
                \/ Contains(text_preview, <<30003, 20986>> (* 申出 *)) THEN <<25163, 32154>> (* 手続 *)
        ELSE IF Contains(text_preview, <<26399, 38291>> (* 期間 *)) THEN <<26399, 38291>> (* 期間 *)
        ELSE <<103, 101, 110, 101, 114, 97, 108>> (* general *)

extract_article_info(text) ==
    [article_num |-> ArticleNumber(FirstN(text, 1000)),
     article_type |-> ArticleType(FirstN(text, 1000))]

\* The score of one variant of the query on a page.
IntelligentVariantScore(exp_query, text_lower, fuzz) ==
    LET count == Count(text_lower, exp_query)
    IN  partial_ratio(fuzz, exp_query, text_lower)
        + (IF Contains(text_lower, exp_query)
           THEN 50 + (IF count > 1 THEN MinOf(count * 5, 30) ELSE 0)
           ELSE 0)
        + 10 * KeywordHits(exp_query, text_lower)

\* The terms of matched_terms: the variants that occur in the text and the
\* keywords of the variants, 2 characters or longer, that occur in it.
MatchedTerms(expanded_queries, text_lower) ==
    {exp_query \in expanded_queries : Contains(text_lower, exp_query)}
        \cup UNION {{k \in ItemsOf(FindAllWords(exp_query)) :
                        Len(k) >= 2 /\ Contains(text_lower, k)} :
                    exp_query \in expanded_queries}

\* intent_bonus and relevance_type
IntentBonus(intent, article, has_relevant_content, query_lower, text_lower) ==
    LET num == article.article_num
        type == article.article_type
    IN  IF intent \in {"definition", "condition"}
        THEN LET first ==
                    IF type = <<20241, 26247>> (* 休暇 *) THEN [bonus |-> 60, relevance |-> "definition"]
                    ELSE IF type = <<20241, 26989>> (* 休業 *) /\ Contains(query_lower, <<20241>> (* 休 *))
                         THEN [bonus |-> 50, relevance |-> "definition"]
                    ELSE IF num # 0 /\ num <= 3
                         THEN IF has_relevant_content
                              THEN [bonus |-> 40, relevance |-> "definition"]
                              ELSE [bonus |-> 5, relevance |-> "general"]
                    ELSE [bonus |-> 0, relevance |-> "general"]
             IN  IF type \in {<<30446, 30340>> (* 目的 *), <<23550, 35937>> (* 対象 *), <<23450, 32681>> (* 定義 *)}
                 THEN [bonus |-> first.bonus + (IF has_relevant_content THEN 20 ELSE 0),
                       relevance |-> "definition"]
                 ELSE IF type = <<25163, 32154>> (* 手続 *)
                      THEN [bonus |-> first.bonus - 20, relevance |-> first.relevance]
                 ELSE first
        ELSE IF intent = "procedure"
        THEN IF type = <<25163, 32154>> (* 手続 *) THEN [bonus |-> 40, relevance |-> "procedure"]
             ELSE IF type \in {<<30446, 30340>> (* 目的 *), <<23550, 35937>> (* 対象 *)}
                  THEN [bonus |-> -10, relevance |-> "general"]
             ELSE [bonus |-> 0, relevance |-> "general"]
        ELSE IF intent = "period"
                /\ (Contains(text_lower, <<26399, 38291>> (* 期間 *)) \/ Contains(text_lower, <<26085>> (* 日 *))
                        \/ Contains(text_lower, <<12534, 26376>> (* ヶ月 *)))
        THEN [bonus |-> 30, relevance |-> "period"]
        ELSE [bonus |-> 0, relevance |-> "general"]

ArticleBonus(article, has_relevant_content) ==
    LET num == article.article_num
        type == article.article_type
    IN  IF num = 0 THEN 0
        ELSE IF has_relevant_content
        THEN IF num = 1 /\ type = <<30446, 30340>> (* 目的 *) THEN 10
             ELSE IF num = 2 THEN 15
             ELSE IF num <= 5 THEN 10
             ELSE IF num >= 30 /\ num <= 35 THEN (IF type = <<20241, 26247>> (* 休暇 *) THEN 20 ELSE 0)
             ELSE IF num > 50 THEN -10
             ELSE 0
        ELSE IF num = 1 THEN -20
        ELSE 0

\* calculate_intelligent_score: the score and the relevance type
calculate_intelligent_score(query, row, fuzz) ==
    LET text_lower == LowerStr(row.text)
        query_lower == LowerStr(query)
        expanded_queries == intelligent_expand_query(query)
        max_score ==
            MaxOf({0} \cup
                {IntelligentVariantScore(exp_query, text_lower, fuzz) :
                    exp_query \in expanded_queries})
        matched_terms == MatchedTerms(expanded_queries, text_lower)
        intent == analyze_query_intent(query)
        article == extract_article_info(row.text)
        has_relevant_content == matched_terms # {}
        by_intent ==
            IntentBonus(intent, article, has_relevant_content, query_lower, text_lower)
        article_bonus == ArticleBonus(article, has_relevant_content)
        file_bonus == FileAffinity(query_lower, row.file_name, 30, -30, -20)
        frequency_penalty ==
            IF intent # "procedure"
               /\ \E term \in matched_terms : Count(text_lower, LowerStr(term)) > 15
            THEN -10
            ELSE 0
        total_score ==
            max_score + by_intent.bonus + article_bonus + file_bonus
                + frequency_penalty
    IN  [score |-> MaxOf({0, total_score}), relevance_type |-> by_intent.relevance]

RECURSIVE IntelligentResults(_, _, _, _)
IntelligentResults(rows, query, min_score, fuzz) ==
    IF rows = << >> THEN << >>
    ELSE LET scored == calculate_intelligent_score(query, Head(rows), fuzz)
             rest == IntelligentResults(Tail(rows), query, min_score, fuzz)
         IN  IF scored.score >= min_score
             THEN <<SearchResult(Head(rows), scored.score, scored.relevance_type)>>
                    \o rest
             ELSE rest

IsDefinition(result) == result.relevance_type = "definition"
IsOther(result) == result.relevance_type # "definition"

GroupByRelevanceMutant(results) == results

\* definition_results + other_results
GroupByRelevance(results) ==
    SelectSeq(results, IsDefinition) \o SelectSeq(results, IsOther)

search_intelligent(query, top_k, min_score, fuzz) ==
    IF query = << >> \/ ~index_exists THEN << >>
    ELSE LET intent == analyze_query_intent(query)
             results == SortByScore(IntelligentResults(pages, query, min_score, fuzz))
         IN  IF results # << >> /\ intent \in {"definition", "condition"}
             THEN FirstN(GroupByRelevance(results), top_k)
             ELSE FirstN(results, top_k)

(***************************************************************************)
(* One call of search, search_enhanced or search_intelligent on an index   *)
(***************************************************************************)

RankQueries == {<< >>, <<27531, 26989, 12392, 12399>> (* 残業とは *), <<27531, 26989>> (* 残業 *), <<27531, 26989, 12398, 30003, 35531>> (* 残業の申請 *)}
MinScores == {30, 100}
\* (query, context) of search: without a context, and with a context that
\* replaces the query the keywords are taken from
SearchCalls ==
    {<<q, << >> >> : q \in RankQueries} \cup {<<<<27531, 26989, 12391, 12365, 12394, 12356>> (* 残業できない *), <<27531, 26989>> (* 残業 *)>>}

InitRank ==
    /\ InitIndex
    /\ sr_call = NoSearch
    /\ NormIdle
    /\ QueryIdle
    /\ AnalyzerIdle
    /\ ScoreIdle
    /\ SnippetIdle
    /\ RangesIdle
    /\ AppIdle

RankCall(engine, query, top_k, min_score, fuzz, result) ==
    [made |-> TRUE, engine |-> engine, query |-> query, top_k |-> top_k,
     min_score |-> min_score, allowed_files |-> << >>, strict |-> FALSE,
     fuzz |-> fuzz, result |-> result, context |-> << >>, raised |-> FALSE]

Search(query, context, top_k, min_score, fuzz) ==
    /\ ~sr_call.made
    /\ sr_call' =
        LET outcome == search_call(query, top_k, min_score, context, fuzz)
        IN  [RankCall("search", query, top_k, min_score, fuzz, outcome.result)
                EXCEPT !.context = context, !.raised = outcome.raised]
    /\ UNCHANGED <<index_exists, index_readable, pages, notSearchVars>>

SearchEnhanced(query, top_k, min_score, fuzz) ==
    /\ ~sr_call.made
    /\ sr_call' = RankCall("search_enhanced", query, top_k, min_score, fuzz,
                           search_enhanced(query, top_k, min_score, fuzz))
    /\ UNCHANGED <<index_exists, index_readable, pages, notSearchVars>>

SearchIntelligent(query, top_k, min_score, fuzz) ==
    /\ ~sr_call.made
    /\ sr_call' = RankCall("search_intelligent", query, top_k, min_score, fuzz,
                           search_intelligent(query, top_k, min_score, fuzz))
    /\ UNCHANGED <<index_exists, index_readable, pages, notSearchVars>>

NextRank ==
    \/ \E call \in SearchCalls, top_k \in TopKs, min_score \in MinScores,
          fuzz \in FuzzValues :
            Search(call[1], call[2], top_k, min_score, fuzz)
    \/ \E query \in RankQueries, top_k \in TopKs, min_score \in MinScores,
          fuzz \in FuzzValues :
            SearchEnhanced(query, top_k, min_score, fuzz)
    \/ \E query \in RankQueries, top_k \in TopKs, min_score \in MinScores,
          fuzz \in FuzzValues :
            SearchIntelligent(query, top_k, min_score, fuzz)

SpecRank == InitRank /\ [][NextRank]_vars

CallOf(engine) == sr_call.made /\ sr_call.engine = engine

NonIncreasing(hits) ==
    \A i, j \in 1..Len(hits) : i < j => hits[i].score >= hits[j].score

\* C1: search returns its hits in non-increasing score order, and hits of
\* equal score in the order of get_all_pages: by file_name, then page_no.
C1_SortedAndStable ==
    CallOf("search") =>
        /\ NonIncreasing(sr_call.result)
        /\ \A i, j \in 1..Len(sr_call.result) :
            (i < j /\ sr_call.result[i].score = sr_call.result[j].score)
                => KeyLess(sr_call.result[i], sr_call.result[j])

\* A search on a table that stores two pages against the order of their
\* keys, both of which are hits of the same score.
C1_Witness ==
    /\ CallOf("search")
    /\ Len(pages) >= 2 /\ KeyLess(pages[2], pages[1])
    /\ Len(sr_call.result) >= 2
    /\ sr_call.result[1].score = sr_call.result[2].score
    /\ sr_call.result[1].file_name = pages[2].file_name
    /\ sr_call.result[1].page_no = pages[2].page_no
    /\ sr_call.result[2].file_name = pages[1].file_name
    /\ sr_call.result[2].page_no = pages[1].page_no

C3_TopKAndMinScore ==
    (sr_call.made
        /\ sr_call.engine \in {"search", "search_enhanced", "search_intelligent"})
    => /\ Len(sr_call.result) <= sr_call.top_k
       /\ \A i \in 1..Len(sr_call.result) :
            sr_call.result[i].score >= sr_call.min_score

\* A call of search_enhanced with top_k = 1 on three pages, of which two
\* reach min_score and one does not.
C3_Witness ==
    /\ CallOf("search_enhanced")
    /\ sr_call.top_k = 1 /\ Len(sr_call.result) = 1
    /\ Len(pages) = 3
    /\ Cardinality({i \in 1..3 :
            calculate_smart_score(sr_call.query, pages[i], sr_call.fuzz)
                >= sr_call.min_score}) = 2

(***************************************************************************)
(* pdf/search_improved.py: calculate_relevance_score                       *)
(***************************************************************************)

FILE_TOPICS == <<
    [topic |-> <<32946, 20816, 20171, 35703>> (* 育児介護 *), keywords |-> {<<32946, 20816>> (* 育児 *), <<20171, 35703>> (* 介護 *), <<29987, 21069>> (* 産前 *), <<29987, 24460>> (* 産後 *), <<20986, 29987>> (* 出産 *), <<23376, 32946, 12390>> (* 子育て *), <<30475, 35703>> (* 看護 *), <<23478, 26063>> (* 家族 *)}],
    [topic |-> <<12497, 12540, 12488>> (* パート *), keywords |-> {<<12497, 12540, 12488>> (* パート *), <<12450, 12523, 12496, 12452, 12488>> (* アルバイト *), <<38750, 27491, 35215>> (* 非正規 *), <<26178, 32102>> (* 時給 *), <<30701, 26178, 38291>> (* 短時間 *)}],
    [topic |-> <<21172, 20351, 21332, 23450>> (* 労使協定 *), keywords |-> {<<21332, 23450>> (* 協定 *), <<21172, 20351>> (* 労使 *), <<51, 54, 21332, 23450>> (* 36協定 *), <<21172, 20685, 32773, 20195, 34920>> (* 労働者代表 *)}] >>

GENERAL_TOPICS ==
    {<<26377, 32102>> (* 有給 *), <<26377, 20241>> (* 有休 *), <<24180, 20241>> (* 年休 *), <<32102, 19982>> (* 給与 *), <<32102, 26009>> (* 給料 *), <<36035, 37329>> (* 賃金 *), <<21220, 21209, 26178, 38291>> (* 勤務時間 *), <<27531, 26989>> (* 残業 *), <<36933, 21051>> (* 遅刻 *), <<26089, 36864>> (* 早退 *),
     <<27424, 21220>> (* 欠勤 *), <<36864, 32887>> (* 退職 *), <<35299, 38599>> (* 解雇 *), <<25074, 25106>> (* 懲戒 *)}

identify_query_topic(query) ==
    LET query_lower == LowerStr(query)
        matching == {i \in 1..Len(FILE_TOPICS) :
                        \E kw \in FILE_TOPICS[i].keywords : Contains(query_lower, kw)}
    IN  IF Contains(query_lower, <<32946, 20241>> (* 育休 *)) \/ Contains(query_lower, <<32946, 20816, 20241>> (* 育児休 *))
        THEN <<32946, 20816, 20171, 35703>> (* 育児介護 *)
        ELSE IF matching # {}
        THEN FILE_TOPICS[CHOOSE i \in matching : \A j \in matching : i <= j].topic
        ELSE IF \E kw \in GENERAL_TOPICS : Contains(query_lower, kw) THEN <<103, 101, 110, 101, 114, 97, 108>> (* general *)
        ELSE <<117, 110, 107, 110, 111, 119, 110>> (* unknown *)

\* topic_bonus
TopicBonus(query_topic, file_name) ==
    IF query_topic = <<32946, 20816, 20171, 35703>> (* 育児介護 *)
    THEN IF Contains(file_name, <<32946, 20816, 20171, 35703>> (* 育児介護 *)) THEN 50 ELSE -30
    ELSE IF query_topic = <<12497, 12540, 12488>> (* パート *)
    THEN IF Contains(file_name, <<12497, 12540, 12488>> (* パート *)) THEN 50 ELSE -30
    ELSE IF query_topic = <<103, 101, 110, 101, 114, 97, 108>> (* general *)
    THEN IF ~Contains(file_name, <<32946, 20816, 20171, 35703>> (* 育児介護 *)) /\ ~Contains(file_name, <<12497, 12540, 12488>> (* パート *))
         THEN 20
         ELSE -10
    ELSE 0

IMPROVED_STOPWORDS ==
    {<<12395, 12388, 12356, 12390>> (* について *), <<25945, 12360, 12390>> (* 教えて *), <<12367, 12384, 12373, 12356>> (* ください *), <<12392, 12399>> (* とは *), <<20309>> (* 何 *), <<12393, 12358>> (* どう *), <<12356, 12388>> (* いつ *), <<12393, 12371>> (* どこ *)}

\* [、。\s？！]
ImprovedSeparators == Whitespace \cup {12289 (* 、 *), 12290 (* 。 *), 65311 (* ？ *), 65281 (* ！ *)}

\* extract_keywords of search_improved.py: the words between separators,
\* in order; a word that occurs twice in the query is listed twice.
improved_extract_keywords(query) ==
    SelectSeq([i \in 1..Len(SplitRuns(query, ImprovedSeparators, << >>)) |->
                    Strip(SplitRuns(query, ImprovedSeparators, << >>)[i])],
              LAMBDA word : word # << >> /\ word \notin IMPROVED_STOPWORDS
                                /\ Len(word) > 1)

\* The sum of f over the items of a list.
RECURSIVE SumOver(_, _)
SumOver(items, bonus) ==
    IF items = << >> THEN 0
    ELSE bonus[Head(items)] + SumOver(Tail(items), bonus)

calculate_relevance_score(query, row, fuzz) ==
    LET query_lower == LowerStr(query)
        text_lower == LowerStr(row.text)
        base_score == partial_ratio(fuzz, query_lower, text_lower)
        topic_bonus == TopicBonus(identify_query_topic(query), row.file_name)
        section_bonus ==
            IF row.section = << >> THEN 0
            ELSE (IF HasArticleHeading(row.section) THEN 10 ELSE 0)
                    + (IF Contains(LowerStr(row.section), query_lower) THEN 15 ELSE 0)
        keywords == improved_extract_keywords(query)
        keyword_bonus ==
            SumOver(keywords,
                    [keyword \in ItemsOf(keywords) |->
                        LET count == Count(text_lower, LowerStr(keyword))
                        IN  IF count > 0 THEN MinOf(count * 2, 10) ELSE 0])
        query_words ==
            SelectSeq(SplitRuns(query, Whitespace, << >>), LAMBDA word : word # << >>)
        direct_match_bonus ==
            SumOver(query_words,
                    [word \in ItemsOf(query_words) |->
                        IF Len(word) >= 2 /\ Contains(text_lower, LowerStr(word))
                        THEN 15 ELSE 0])
        total_score ==
            base_score + topic_bonus + section_bonus + keyword_bonus
                + direct_match_bonus
    IN  MaxOf({0, total_score})

(***************************************************************************)
(* matched_terms of calculate_smart_score and calculate_intelligent_score  *)
(***************************************************************************)

\* for keyword in keywords: if len(keyword) >= 2 and keyword in text_lower:
\*     if keyword not in matched_terms: matched_terms.append(keyword)
RECURSIVE AppendKeywords(_, _, _)
AppendKeywords(matched_terms, keywords, text_lower) ==
    IF keywords = << >> THEN matched_terms
    ELSE LET keyword == Head(keywords)
         IN  AppendKeywords(
                IF /\ keyword \notin ItemsOf(matched_terms)
                   /\ Len(keyword) >= 2
                   /\ Contains(text_lower, keyword)
                THEN Append(matched_terms, keyword)
                ELSE matched_terms,
                Tail(keywords), text_lower)

\* for exp_query in expanded_queries: the variant is appended when the text
\* contains it, then its keywords; `variants` is the set in the order in
\* which the loop enumerates it.
RECURSIVE MatchedTermsFrom(_, _, _)
MatchedTermsFrom(matched_terms, variants, text_lower) ==
    IF variants = << >> THEN matched_terms
    ELSE LET exp_query == Head(variants)
             with_variant ==
                IF Contains(text_lower, exp_query)
                THEN Append(matched_terms, exp_query)
                ELSE matched_terms
         IN  MatchedTermsFrom(
                AppendKeywords(with_variant, FindAllWords(exp_query), text_lower),
                Tail(variants), text_lower)

\* The orders in which a `for` loop can enumerate a Python set: the language
\* fixes none, and the hash of a str changes from one process to the next.
RECURSIVE Orders(_)
Orders(S) ==
    IF S = {} THEN {<< >>}
    ELSE UNION {{<<x>> \o rest : rest \in Orders(S \ {x})} : x \in S}

(***************************************************************************)
(* Calls of the scoring functions on one query and one page                *)
(***************************************************************************)

ScoreQueries == {<<12497, 12540, 12488>> (* パート *), <<32946, 20241>> (* 育休 *), <<35215, 21063, 12392, 12399>> (* 規則とは *), <<26377, 32102>> (* 有給 *), <<27531, 26989>> (* 残業 *)}

\* (text, section) of the pages that are scored
ScoreContents ==
    {<<<<27531, 26989, 32, 26178, 38291, 22806, 21172, 20685, 32, 26178, 38291, 22806, 21220, 21209>> (* 残業 時間外労働 時間外勤務 *), <<27531, 26989>> (* 残業 *)>>,
     <<<<26377, 32102, 20241, 26247, 12398, 30003, 35531>> (* 有給休暇の申請 *), <<26377, 32102, 20241, 26247>> (* 有給休暇 *)>>,
     <<<<32946, 20816, 20241, 26989, 32, 32946, 20816, 20241, 26247>> (* 育児休業 育児休暇 *), << >> >>,
     <<<<35215, 21063, 12398, 30446, 30340>> (* 規則の目的 *), <<31532, 49, 26465, 32, 30446, 30340>> (* 第1条 目的 *)>>}

ScorePages ==
    {[file_name |-> f, page_no |-> 1, text |-> c[1], section |-> c[2]] :
        f \in {<<23601, 26989, 35215, 21063, 46, 112, 100, 102>> (* 就業規則.pdf *), <<12497, 12540, 12488, 35215, 31243, 46, 112, 100, 102>> (* パート規程.pdf *)}, c \in ScoreContents}

\* The values of fuzz.partial_ratio where its laws leave it open: below and
\* above the threshold 80 of the section bonus.
ScoreFuzzValues == {75, 85}

\* The calls made on one input.
MaxCalls == 2

InitScore ==
    /\ sc_input \in [query : ScoreQueries, row : ScorePages, boost : BOOLEAN,
                     fuzz : ScoreFuzzValues]
    /\ sc_results = {}
    /\ NormIdle
    /\ QueryIdle
    /\ AnalyzerIdle
    /\ SearchIdle
    /\ SnippetIdle
    /\ RangesIdle
    /\ AppIdle

\* What a call returned: the function, whether the section of the page was
\* passed, the score, and where the function has them, exact_match_bonus,
\* matched_terms and relevance_type.
ScoreResult(fn, with_section, score, exact_match_bonus, matched_terms, relevance_type) ==
    [fn |-> fn, with_section |-> with_section, score |-> score,
     exact_match_bonus |-> exact_match_bonus, matched_terms |-> matched_terms,
     relevance_type |-> relevance_type]

Returned(result) ==
    /\ Cardinality(sc_results) < MaxCalls
    /\ sc_results' = sc_results \cup {result}
    /\ UNCHANGED <<sc_input, snippetVars, rangesVars, notTextVars>>

\* boost_keywords as search passes them, or None
BoostKeywords == IF sc_input.boost THEN extract_keywords(sc_input.query) ELSE {}

\* calculate_score(query, text, section, boost_keywords)
CalculateScore ==
    Returned(ScoreResult("calculate_score", TRUE,
        calculate_score(sc_input.query, sc_input.row, BoostKeywords, sc_input.fuzz),
        ExactMatchBonus(sc_input.query, sc_input.row.text), << >>, "none"))

\* calculate_score(query, text, boost_keywords=boost_keywords)
CalculateScoreWithoutSection ==
    Returned(ScoreResult("calculate_score", FALSE,
        calculate_score(sc_input.query, [sc_input.row EXCEPT !.section = << >>],
                        BoostKeywords, sc_input.fuzz),
        ExactMatchBonus(sc_input.query, sc_input.row.text), << >>, "none"))

\* calculate_relevance_score(query, text, file_name, section)
CalculateRelevanceScore ==
    Returned(ScoreResult("calculate_relevance_score", TRUE,
        calculate_relevance_score(sc_input.query, sc_input.row, sc_input.fuzz),
        0, << >>, "none"))

\* calculate_smart_score(query, text, file_name, section), whose loop
\* enumerates the expanded queries in `order`
CalculateSmartScore(order) ==
    Returned(ScoreResult("calculate_smart_score", TRUE,
        calculate_smart_score(sc_input.query, sc_input.row, sc_input.fuzz),
        0, MatchedTermsFrom(<< >>, order, LowerStr(sc_input.row.text)), "none"))

\* calculate_intelligent_score(query, text, file_name, section, page_no)
CalculateIntelligentScore(order) ==
    LET scored == calculate_intelligent_score(sc_input.query, sc_input.row,
                                              sc_input.fuzz)
    IN  Returned(ScoreResult("calculate_intelligent_score", TRUE, scored.score,
            0, MatchedTermsFrom(<< >>, order, LowerStr(sc_input.row.text)),
            scored.relevance_type))

NextScore ==
    \/ CalculateScore
    \/ CalculateScoreWithoutSection
    \/ CalculateRelevanceScore
    \/ \E order \in Orders(enhanced_expand_query(sc_input.query)) :
        CalculateSmartScore(order)
    \/ \E order \in Orders(intelligent_expand_query(sc_input.query)) :
        CalculateIntelligentScore(order)

SpecScore == InitScore /\ [][NextScore]_vars

ResultsOf(fn) == {r \in sc_results : r.fn = fn}

\* C11: no scoring function returns a negative score.
C11_NonNegativeScore == \A r \in sc_results : r.score >= 0

WithMatchedTerms == {"calculate_smart_score", "calculate_intelligent_score"}

\* C12: the matched_terms that calculate_smart_score and
\* calculate_intelligent_score return hold no term twice.
C12_NoDuplicateTerms ==
    \A r \in sc_results :
        r.fn \in WithMatchedTerms => NoDuplicates(r.matched_terms)

\* C13: two calls of calculate_smart_score, or of
\* calculate_intelligent_score, on the same query and page return the same
\* score and the same matched_terms in the same order.
C13_Deterministic ==
    \A r1, r2 \in sc_results :
        (r1.fn \in WithMatchedTerms /\ r1.fn = r2.fn) => r1 = r2

\* C14: calculate_score adds the exact-match bonus of 20 whenever the text
\* contains the query.
C14_ExactMatchBonus ==
    \A r \in ResultsOf("calculate_score") :
        (sc_input.query # << >> /\ Contains(sc_input.row.text, sc_input.query))
            => r.exact_match_bonus = 20

\* The calls of calculate_score with the section of the page and without a
\* section.
WithSection == {r \in ResultsOf("calculate_score") : r.with_section}
WithoutSection == {r \in ResultsOf("calculate_score") : ~r.with_section}

SectionContainsQuery ==
    sc_input.query # << >> /\ Contains(sc_input.row.section, sc_input.query)

SectionBonusApplies ==
    LET query_norm == normalize_text(sc_input.query, TRUE)
        section_norm == normalize_text(sc_input.row.section, TRUE)
    IN  /\ sc_input.row.section # << >>
        /\ \/ Contains(section_norm, query_norm)
           \/ partial_ratio(sc_input.fuzz, query_norm, section_norm) > 80

C15_WitnessAtCap ==
    \E r1 \in WithSection, r2 \in WithoutSection :
        SectionContainsQuery /\ SectionBonusApplies /\ r2.score = 150
            /\ r1.score = 150

(***************************************************************************)
(* calculate_intelligent_score on pages that begin with an article heading *)
(***************************************************************************)

\* Pages of the articles 1, 2, 3, 9 and 51 and a page without a heading;
\* 賃金 matches none of the queries, 規則 and パート match one.
ArticleTexts ==
    {<<31532, 49, 26465, 32, 36035, 37329>> (* 第1条 賃金 *), <<31532, 50, 26465, 32, 36035, 37329>> (* 第2条 賃金 *), <<31532, 51, 26465, 32, 36035, 37329>> (* 第3条 賃金 *), <<31532, 57, 26465, 32, 36035, 37329>> (* 第9条 賃金 *), <<36035, 37329>> (* 賃金 *),
     <<31532, 49, 26465, 32, 35215, 21063, 12398, 30446, 30340>> (* 第1条 規則の目的 *), <<31532, 50, 26465, 32, 35215, 21063, 12398, 23550, 35937>> (* 第2条 規則の対象 *), <<31532, 53, 49, 26465, 32, 12497, 12540, 12488>> (* 第51条 パート *)}

ArticlePages ==
    {[file_name |-> <<23601, 26989, 35215, 21063, 46, 112, 100, 102>> (* 就業規則.pdf *), page_no |-> 1, text |-> t, section |-> << >>] :
        t \in ArticleTexts}

InitArticle ==
    /\ sc_input \in [query : ScoreQueries, row : ArticlePages, boost : {FALSE},
                     fuzz : ScoreFuzzValues]
    /\ sc_results = {}
    /\ NormIdle
    /\ QueryIdle
    /\ AnalyzerIdle
    /\ SearchIdle
    /\ SnippetIdle
    /\ RangesIdle
    /\ AppIdle

NextArticle ==
    \E order \in Orders(intelligent_expand_query(sc_input.query)) :
        CalculateIntelligentScore(order)

SpecArticle == InitArticle /\ [][NextArticle]_vars

\* What calculate_intelligent_score adds to the score of a page on account
\* of its article number: article_bonus, and the part of intent_bonus that
\* is not there for the same page without an article number.
ArticleContribution(query, row) ==
    LET text_lower == LowerStr(row.text)
        query_lower == LowerStr(query)
        intent == analyze_query_intent(query)
        article == extract_article_info(row.text)
        has_relevant_content ==
            MatchedTerms(intelligent_expand_query(query), text_lower) # {}
        numbered ==
            IntentBonus(intent, article, has_relevant_content, query_lower,
                        text_lower)
        unnumbered ==
            IntentBonus(intent, [article EXCEPT !.article_num = 0],
                        has_relevant_content, query_lower, text_lower)
    IN  ArticleBonus(article, has_relevant_content)
            + numbered.bonus - unnumbered.bonus

\* C27 as claimed: for a page with no matched terms, what
\* calculate_intelligent_score adds on account of the article number
\* (article_bonus and the intent bonus of the articles 1 to 3) is at most 0.
C27_NoBonusWithoutMatch ==
    \A r \in ResultsOf("calculate_intelligent_score") :
        r.matched_terms = << >>
            => ArticleContribution(sc_input.query, sc_input.row) <= 0

(***************************************************************************)
(* pdf/snippet.py: find_all_positions                                      *)
(***************************************************************************)

LeastOf(S) == CHOOSE x \in S : \A y \in S : x <= y
Larger(a, b) == IF a >= b THEN a ELSE b

\* Python: s[from:to] for 0 <= from and 0 <= to
Slice(s, from, to) ==
    IF from >= MinOf(to, Len(s)) THEN << >> ELSE SubSeq(s, from + 1, MinOf(to, Len(s)))

\* Python: str.lower of one character.  U+0130 (İ) lowers to the two
\* characters U+0069 U+0307, every other character of the model's alphabets
\* to one character.
LowerChars(c) == IF c = 304 (* İ *) THEN <<105, 775>> ELSE <<Lower(c)>>

\* Python: s.lower()
RECURSIVE StrLower(_)
StrLower(s) ==
    IF s = << >> THEN << >>
    ELSE IF Len(s) = 1 THEN LowerChars(s[1])
    ELSE StrLower(SubSeq(s, 1, Len(s) \div 2))
             \o StrLower(SubSeq(s, Len(s) \div 2 + 1, Len(s)))

\* Python: hay.find(needle, start) for a non-empty needle and 0 <= start
FindFrom(hay, needle, start) ==
    LET at == {i \in start..(Len(hay) - Len(needle)) :
                  SubSeq(hay, i + 1, i + Len(needle)) = needle}
    IN  IF at = {} THEN -1 ELSE LeastOf(at)

\* The while loop of find_all_positions; length is len(query).
RECURSIVE PositionsFrom(_, _, _, _)
PositionsFrom(search_text, search_query, length, start) ==
    LET pos == FindFrom(search_text, search_query, start)
    IN  IF pos = -1 THEN << >>
        ELSE <<<<pos, pos + length>>>>
                 \o PositionsFrom(search_text, search_query, length, pos + 1)

find_all_positions(text, query) ==
    IF text = << >> \/ query = << >> THEN << >>
    ELSE PositionsFrom(StrLower(text), StrLower(query), Len(query), 0)

(***************************************************************************)
(* pdf/snippet.py: extract_window                                          *)
(***************************************************************************)

Separators == <<12290 (* 。 *), 65294 (* ． *), 10 (* \n *), 65281 (* ！ *), 65311 (* ？ *)>>

\* Python: text.rfind(c, start, end) and text.find(c, start, end) for one
\* character c and 0 <= start, 0 <= end
RFindChar(text, c, start, end) ==
    LET at == {i \in start..(MinOf(end, Len(text)) - 1) : text[i + 1] = c}
    IN  IF at = {} THEN -1 ELSE MaxOf(at)

FindChar(text, c, start, end) ==
    LET at == {i \in start..(MinOf(end, Len(text)) - 1) : text[i + 1] = c}
    IN  IF at = {} THEN -1 ELSE LeastOf(at)

\* for separator in [...]: the first separator found decides
RECURSIVE AlignStart(_, _, _, _)
AlignStart(text, separators, start, center) ==
    IF separators = << >> THEN start
    ELSE LET sep_pos == RFindChar(text, Head(separators), start, center)
         IN  IF sep_pos # -1 /\ sep_pos > start - 50 THEN sep_pos + 1
             ELSE AlignStart(text, Tail(separators), start, center)

RECURSIVE AlignEnd(_, _, _, _)
AlignEnd(text, separators, center, end) ==
    IF separators = << >> THEN end
    ELSE LET sep_pos == FindChar(text, Head(separators), center, end)
         IN  IF sep_pos # -1 /\ sep_pos < end + 50 THEN sep_pos + 1
             ELSE AlignEnd(text, Tail(separators), center, end)

extract_window(text, center, window_size, text_length) ==
    LET start == Larger(0, center - window_size)
        end == MinOf(text_length, center + window_size)
    IN  <<IF start > 0 THEN AlignStart(text, Separators, start, center) ELSE start,
          IF end < text_length THEN AlignEnd(text, Separators, center, end) ELSE end>>

(***************************************************************************)
(* pdf/snippet.py: merge_ranges                                            *)
(***************************************************************************)

\* sorted(ranges, key=lambda x: x[0]) is stable: a range goes behind the
\* ranges of the same start that precede it.
RECURSIVE InsertByStart(_, _)
InsertByStart(sorted, range) ==
    IF sorted = << >> THEN <<range>>
    ELSE IF range[1] < Head(sorted)[1] THEN <<range>> \o sorted
    ELSE <<Head(sorted)>> \o InsertByStart(Tail(sorted), range)

RECURSIVE SortByStart(_)
SortByStart(ranges) ==
    IF ranges = << >> THEN << >>
    ELSE InsertByStart(SortByStart(SubSeq(ranges, 1, Len(ranges) - 1)),
                       ranges[Len(ranges)])

\* if current_start <= last_end + 10
OverlapsOrAdjacentMutant(last, current) == current[1] <= last[2]
OverlapsOrAdjacent(last, current) == current[1] <= last[2] + 10

\* for current_start, current_end in sorted_ranges[1:]
RECURSIVE MergeInto(_, _)
MergeInto(merged, rest) ==
    IF rest = << >> THEN merged
    ELSE LET last == merged[Len(merged)]
             current == Head(rest)
         IN  IF OverlapsOrAdjacent(last, current)
             THEN MergeInto([merged EXCEPT ![Len(merged)] =
                                 <<last[1], Larger(last[2], current[2])>>],
                            Tail(rest))
             ELSE MergeInto(Append(merged, current), Tail(rest))

merge_rangesMutant(ranges) == SortByStart(ranges)

merge_ranges(ranges) ==
    IF ranges = << >> THEN << >>
    ELSE LET sorted_ranges == SortByStart(ranges)
         IN  MergeInto(<<Head(sorted_ranges)>>, Tail(sorted_ranges))

(***************************************************************************)
(* pdf/snippet.py: highlight_text                                          *)
(***************************************************************************)

\* re.IGNORECASE compares characters by their simple case mapping, which
\* takes U+0130 (İ) to the one character i.
FoldCase(c) == IF c = 304 (* İ *) THEN 105 ELSE Lower(c)

\* re.escape(query) matches the characters of query at offset i of text
MatchesAt(text, query, i) ==
    /\ i + Len(query) <= Len(text)
    /\ \A k \in 1..Len(query) : FoldCase(text[i + k]) = FoldCase(query[k])

Bold == <<42, 42>> (* ** *)

\* pattern.sub(lambda m: f"**{m.group()}**", text): the matches from left
\* to right, none overlapping the one before
RECURSIVE HighlightFrom(_, _, _)
HighlightFrom(text, query, i) ==
    LET at == {j \in i..(Len(text) - Len(query)) : MatchesAt(text, query, j)}
        m == LeastOf(at)
    IN  IF at = {} THEN Slice(text, i, Len(text))
        ELSE Slice(text, i, m) \o Bold \o Slice(text, m, m + Len(query)) \o Bold
                 \o HighlightFrom(text, query, m + Len(query))

highlight_text(text, query) ==
    IF query = << >> \/ text = << >> THEN text ELSE HighlightFrom(text, query, 0)

(***************************************************************************)
(* pdf/snippet.py: make_snippet                                            *)
(***************************************************************************)

Snippet(excerpt, start, end) ==
    [made |-> TRUE, excerpt |-> excerpt, start |-> start, end |-> end]

Ellipsis == <<8230>> (* … *)
BetweenRanges == <<32, 8230, 32>> (*  …  *)

\* excerpt = text[:max_length], with "…" when the text is longer
FromTheTopMutant(text, max_length) ==
    Snippet(Slice(text, 0, max_length), 0, MinOf(max_length, Len(text)))

FromTheTop(text, max_length) ==
    Snippet(Slice(text, 0, max_length)
                \o (IF Len(text) > max_length THEN Ellipsis ELSE << >>),
            0, MinOf(max_length, Len(text)))

CenterOf(position) == (position[1] + position[2]) \div 2

\* snippets_ranges
SnippetsRanges(text, positions, window, show_all_matches) ==
    IF show_all_matches
    THEN [i \in 1..Len(positions) |->
             extract_window(text, CenterOf(positions[i]), window, Len(text))]
    ELSE LET first == extract_window(text, CenterOf(positions[1]), window, Len(text))
         IN  IF Len(positions) > 1 /\ positions[2][1] > first[2] + 50
             THEN <<first, extract_window(text, CenterOf(positions[2]),
                                          window \div 2, Len(text))>>
             ELSE <<first>>

\* for i, (start, end) in enumerate(merged_ranges), from index i on with
\* total_length characters collected; the joined excerpt_parts
RECURSIVE ExcerptParts(_, _, _, _, _)
ExcerptParts(text, merged_ranges, i, total_length, max_length) ==
    IF i >= Len(merged_ranges) \/ total_length >= max_length THEN << >>
    ELSE LET start == merged_ranges[i + 1][1]
             end == merged_ranges[i + 1][2]
             remaining == max_length - total_length
             cut == Slice(text, start, MinOf(end, start + remaining))
             led == IF start > 0 /\ i = 0 THEN Ellipsis \o cut ELSE cut
             part_text ==
                 IF end < Len(text)
                      /\ (i = Len(merged_ranges) - 1
                            \/ total_length + Len(led) >= max_length)
                 THEN led \o Ellipsis ELSE led
             between == IF i > 0 THEN BetweenRanges ELSE << >>
         IN  between \o part_text
                 \o ExcerptParts(text, merged_ranges, i + 1,
                                 total_length + Len(between) + Len(part_text),
                                 max_length)

make_snippet(text, query, window, max_length, show_all_matches) ==
    IF text = << >> THEN Snippet(<< >>, 0, 0)
    ELSE IF query = << >> THEN FromTheTop(text, max_length)
    ELSE LET positions == find_all_positions(text, query)
             merged_ranges ==
                 merge_ranges(SnippetsRanges(text, positions, window, show_all_matches))
         IN  IF positions = << >> THEN FromTheTop(text, max_length)
             ELSE Snippet(highlight_text(ExcerptParts(text, merged_ranges, 0, 0,
                                                      max_length), query),
                          merged_ranges[1][1],
                          merged_ranges[Len(merged_ranges)][2])

(***************************************************************************)
(* Calls of make_snippet                                                   *)
(***************************************************************************)

Filler(n) == [i \in 1..n |-> 120 (* x *)]

\* The texts: empty; one occurrence; an occurrence in other case; an
\* occurrence between sentence ends; two occurrences far apart; two
\* occurrences a little apart; many occurrences; an occurrence behind
\* characters whose lower case is longer.
SnippetTexts ==
    {<< >>,
     <<120, 97, 98, 120>> (* xabx *),
     <<120, 120, 65, 66, 120, 120>> (* xxABxx *),
     Filler(10) \o <<12290, 120, 120, 120, 97, 98, 120, 120, 120, 65281>> (* 。xxxabxxx！ *) \o Filler(10),
     <<97, 98>> (* ab *) \o Filler(60) \o <<97, 98>> (* ab *) \o Filler(5),
     Filler(6) \o <<97, 98>> (* ab *) \o Filler(12) \o <<97, 98>> (* ab *) \o Filler(6),
     <<97, 98, 97, 98, 97, 98, 97, 98, 97, 98, 97, 98>> (* abababababab *) \o Filler(8),
     <<304, 304, 304, 304, 304, 304, 304, 304, 304, 304, 97, 98>> (* İİİİİİİİİİab *)}

\* No query, a query that occurs in the texts and one that does not.
SnippetQueries == {<< >>, <<97, 98>> (* ab *), <<122, 122>> (* zz *)}

SnippetWindows == {0, 1, 3, 10, 120}
SnippetMaxLengths == {0, 2, 5, 20, 400}

InitSnippet ==
    /\ sn_input \in [text : SnippetTexts, query : SnippetQueries,
                     window : SnippetWindows, max_length : SnippetMaxLengths,
                     show_all_matches : BOOLEAN]
    /\ sn_result = NoSnippet
    /\ NormIdle /\ QueryIdle /\ AnalyzerIdle /\ SearchIdle /\ ScoreIdle /\ RangesIdle
    /\ AppIdle

MakeSnippet ==
    /\ ~sn_result.made
    /\ sn_result' = make_snippet(sn_input.text, sn_input.query, sn_input.window,
                                 sn_input.max_length, sn_input.show_all_matches)
    /\ UNCHANGED <<sn_input, scoreVars, rangesVars, notTextVars>>

NextSnippet == MakeSnippet

SpecSnippet == InitSnippet /\ [][NextSnippet]_vars

\* The offsets where the query occurs in the text, the case of letters
\* ignored.
Occurrences(text, query) ==
    {i \in 0..(Len(text) - Len(query)) :
        \A k \in 1..Len(query) : FoldCase(text[i + k]) = FoldCase(query[k])}

\* C16: for every text, query and non-negative window and max_length, the
\* Snippet returned by make_snippet satisfies 0 <= start <= end <= len(text).
C16_RangeWithinText ==
    sn_result.made =>
        /\ 0 <= sn_result.start
        /\ sn_result.start <= sn_result.end
        /\ sn_result.end <= Len(sn_input.text)

\* C17: the excerpt returned by make_snippet is never longer than max_length
\* plus a fixed number of ellipsis and separator characters (here: an
\* ellipsis at each end and two separators between ranges), whatever the
\* number of occurrences of the query in the excerpt.
C17_BoundedExcerpt ==
    sn_result.made =>
        Len(sn_result.excerpt)
            <= sn_input.max_length + 2 * Len(Ellipsis) + 2 * Len(BetweenRanges)

\* C18: whenever the non-empty query occurs in the text, the case of letters
\* ignored, and window and max_length are positive, the excerpt returned by
\* make_snippet contains an occurrence of the query, as the text writes it,
\* between the highlight markers **.
C18_OccurrenceHighlighted ==
    (/\ sn_result.made
     /\ sn_input.query # << >>
     /\ sn_input.window > 0
     /\ sn_input.max_length > 0
     /\ Occurrences(sn_input.text, sn_input.query) # {})
        => \E i \in Occurrences(sn_input.text, sn_input.query) :
               Contains(sn_result.excerpt,
                        Bold \o SubSeq(sn_input.text, i + 1, i + Len(sn_input.query))
                             \o Bold)

\* C19: make_snippet with an empty text returns Snippet("", 0, 0); with a
\* non-empty text and a query that is empty or does not occur in the text it
\* returns the first max_length characters of the text, followed by an
\* ellipsis exactly when len(text) > max_length, with start = 0 and
\* end = min(max_length, len(text)).
C19_DegenerateInputs ==
    sn_result.made =>
        LET text == sn_input.text
            shown == MinOf(sn_input.max_length, Len(text))
        IN  /\ text = << >> =>
                sn_result = [made |-> TRUE, excerpt |-> << >>, start |-> 0, end |-> 0]
            /\ (/\ text # << >>
                /\ \/ sn_input.query = << >>
                   \/ Occurrences(text, sn_input.query) = {})
                => /\ sn_result.start = 0
                   /\ sn_result.end = shown
                   /\ IF Len(text) > sn_input.max_length
                      THEN /\ Len(sn_result.excerpt) = shown + 1
                           /\ sn_result.excerpt[shown + 1] = 8230 (* … *)
                      ELSE Len(sn_result.excerpt) = shown
                   /\ SubSeq(sn_result.excerpt, 1, shown) = SubSeq(text, 1, shown)

\* A text longer than max_length and a query that does not occur in it: the
\* excerpt is cut and ends with the ellipsis.
C19_Witness ==
    /\ sn_result.made
    /\ sn_input.text # << >>
    /\ sn_input.query # << >>
    /\ Occurrences(sn_input.text, sn_input.query) = {}
    /\ 0 < sn_input.max_length
    /\ sn_input.max_length < Len(sn_input.text)
    /\ Len(sn_result.excerpt) = sn_input.max_length + 1

(***************************************************************************)
(* Calls of merge_ranges                                                   *)
(***************************************************************************)

\* The ends of the ranges: 5 and 15 are 10 apart, 15 and 26 are 11 apart.
RangeEnds == {0, 5, 15, 26}

\* (start, end); extract_window can return a start behind the end.
RangePool == RangeEnds \X RangeEnds

MaxRanges == 3

\* The lists of the merge_ranges tests of tests/test_snippet.py.
TestRanges ==
    {<<<<0, 10>>, <<5, 15>>, <<20, 30>>>>,
     <<<<0, 10>>, <<10, 20>>, <<20, 30>>>>,
     <<<<0, 10>>, <<21, 30>>>>}

InitRanges ==
    /\ mr_ranges \in SeqsUpTo(RangePool, MaxRanges) \cup TestRanges
    /\ mr_result = NoRanges
    /\ NormIdle /\ QueryIdle /\ AnalyzerIdle /\ SearchIdle /\ ScoreIdle /\ SnippetIdle
    /\ AppIdle

MergeRanges ==
    /\ ~mr_result.made
    /\ mr_result' = [made |-> TRUE, ranges |-> merge_ranges(mr_ranges)]
    /\ UNCHANGED <<mr_ranges, scoreVars, snippetVars, notTextVars>>

NextRanges == MergeRanges

SpecRanges == InitRanges /\ [][NextRanges]_vars

\* The range outer contains the range inner.
Within(inner, outer) == outer[1] <= inner[1] /\ inner[2] <= outer[2]

\* The characters between two ranges, of which first starts first.
GapBetween(first, second) == second[1] - first[2]

TwoRanges ==
    /\ Len(mr_ranges) = 2
    /\ \A k \in 1..2 : mr_ranges[k][1] <= mr_ranges[k][2]
    /\ mr_ranges[1][1] <= mr_ranges[2][1]

C21_WitnessApart ==
    /\ mr_result.made
    /\ TwoRanges
    /\ GapBetween(mr_ranges[1], mr_ranges[2]) = 11
    /\ Len(mr_result.ranges) = 2

(***************************************************************************)
(* Calls of search on a missing, unreadable, empty or filled index         *)
(***************************************************************************)

\* top_k: int = 5
DefaultTopK == 5

InitFetch ==
    /\ \/ index_exists = TRUE /\ index_readable = FALSE /\ pages = << >>
       \/ InitIndex
    /\ sr_call = NoSearch
    /\ NormIdle /\ QueryIdle /\ AnalyzerIdle
    /\ ScoreIdle /\ SnippetIdle /\ RangesIdle
    /\ AppIdle

NextFetch ==
    \E call \in SearchCalls, min_score \in MinScores, fuzz \in FuzzValues :
        Search(call[1], call[2], DefaultTopK, min_score, fuzz)

SpecFetch == InitFetch /\ [][NextFetch]_vars

\* No page of the index reaches min_score in the call made.
NoPageReachesMinScore ==
    \A i \in 1..Len(pages) :
        calculate_score(sr_call.query, pages[i],
                        extract_keywords(ExpandedQuery(sr_call.query, sr_call.context)),
                        sr_call.fuzz) < sr_call.min_score

\* C23: search never raises, and returns an empty list for an empty query,
\* a missing index file, a failure while fetching the pages, an empty
\* corpus, and a corpus in which no page reaches min_score.
C23_EmptyOnDegenerateInput ==
    CallOf("search") =>
        /\ ~sr_call.raised
        /\ (\/ sr_call.query = << >>
            \/ ~index_exists
            \/ ~index_readable
            \/ pages = << >>
            \/ NoPageReachesMinScore) => sr_call.result = << >>

\* A call with a query on an index file that cannot be read.
C23_Witness ==
    /\ CallOf("search")
    /\ sr_call.query # << >>
    /\ index_exists
    /\ ~index_readable
    /\ ~sr_call.raised
    /\ sr_call.result = << >>

\* A call with a query on pages of which none reaches min_score, while
\* one reaches the lower min_score.
C23_WitnessBelowMinScore ==
    /\ CallOf("search")
    /\ sr_call.query # << >>
    /\ pages # << >>
    /\ sr_call.min_score = 100
    /\ NoPageReachesMinScore
    /\ \E i \in 1..Len(pages) :
           calculate_score(sr_call.query, pages[i],
                           extract_keywords(ExpandedQuery(sr_call.query,
                                                          sr_call.context)),
                           sr_call.fuzz) >= 30
    /\ sr_call.result = << >>

(***************************************************************************)
(* pdf/search_with_llm.py and pdf/llm_answer.py: who wrote the answer      *)
(***************************************************************************)

\* LLM_PROVIDER of the environment
Providers == {"none", "openai", "anthropic"}

\* LLMAnswerGenerator(): the new value of _llm_generator.  AppConfig.load()
\* may raise, and so does a provider other than none and openai; the global
\* then stays None ("unset").
LLMAnswerGenerator(provider, config_loads) ==
    IF ~config_loads THEN "unset"
    ELSE IF provider = "none" THEN "disabled"
    ELSE IF provider # "openai" THEN "unset"
    ELSE "enabled"

get_llm_generator(provider, config_loads) ==
    IF llm_generator = "unset" THEN LLMAnswerGenerator(provider, config_loads)
    ELSE llm_generator

\* LLMAnswerGenerator.generate_answer on a list of hits that is not empty:
\* who wrote the answer it returns.
generate_answer(generator, api_fails) ==
    IF generator # "enabled" THEN "simple"
    ELSE IF api_fails THEN "simple"
    ELSE "llm"

\* generate_llm_answer(query, search_results, context, use_llm)
generate_llm_answer(use_llm, generator, api_fails) ==
    IF ~use_llm THEN "rule_based"
    ELSE IF generator \in {"unset", "disabled"} THEN "rule_based"
    ELSE generate_answer(generator, api_fails)

\* search_with_llm(query, use_llm=use_llm), where `hits` tells whether the
\* search finds a page, `provider` and `config_loads` are what
\* AppConfig.load() meets, and `api_fails` whether the call of the OpenAI
\* API raises.  None of the answer generators raises on a list of
\* SearchHit, so the except branch of search_with_llm is not taken.
SearchWithLLM(hits, use_llm, provider, config_loads, api_fails) ==
    LET circumstances ==
            [made |-> TRUE, hits |-> hits, use_llm |-> use_llm,
             provider |-> provider, config_loads |-> config_loads,
             api_fails |-> api_fails]
        decided ==
            IF use_llm = "None" THEN config_loads /\ provider # "none"
            ELSE use_llm = "True"
        generator == get_llm_generator(provider, config_loads)
    IN  /\ IF ~hits
           THEN /\ llm_call' = circumstances @@
                        [answer_by |-> "not_found", llm_used |-> FALSE]
                /\ UNCHANGED llm_generator
           ELSE IF decided
           THEN /\ llm_call' = circumstances @@
                        [answer_by |-> generate_llm_answer(TRUE, generator, api_fails),
                         llm_used |-> TRUE]
                /\ llm_generator' = generator
           ELSE /\ llm_call' = circumstances @@
                        [answer_by |-> "rule_based", llm_used |-> FALSE]
                /\ UNCHANGED llm_generator
        /\ UNCHANGED <<highlightVars, proximityVars, authVars, notAppVars>>

InitLLM ==
    /\ LLMIdle
    /\ HighlightIdle /\ ProximityIdle /\ AuthIdle
    /\ NormIdle /\ QueryIdle /\ AnalyzerIdle /\ SearchIdle
    /\ ScoreIdle /\ SnippetIdle /\ RangesIdle

NextLLM ==
    \E hits, config_loads, api_fails \in BOOLEAN,
       use_llm \in {"None", "True", "False"}, provider \in Providers :
        SearchWithLLM(hits, use_llm, provider, config_loads, api_fails)

SpecLLM == InitLLM /\ [][NextLLM]_vars

\* C24 as claimed: llm_used is True only when the LLM wrote the answer; it
\* is False when use_llm is False, when no page is found and when the answer
\* comes from the rule-based or the simple fallback.
C24_LLMUsedMeansLLMAnswer ==
    llm_call.made => (llm_call.llm_used <=> llm_call.answer_by = "llm")

(***************************************************************************)
(* pdf/advanced_search.py: AdvancedSearchEngine._calculate_proximity_bonus *)
(***************************************************************************)

\* window: int = 50
ProximityWindow == 50

\* positions: the keywords among keywords[:3] that text_lower.find finds,
\* each with the place of its first occurrence.  A dict has one entry for a
\* keyword that is listed twice.
ProximityPositions(text, keywords) ==
    LET text_lower == StrLower(text)
        first == FirstN(keywords, 3)
    IN  {<<first[i], Find(text_lower, StrLower(first[i]))>> :
            i \in {j \in 1..Len(first) : Find(text_lower, StrLower(first[j])) >= 0}}

Distance(a, b) == IF a >= b THEN a - b ELSE b - a

\* _calculate_proximity_bonus(text, keywords, window), times window: the
\* bonus is the float 20 - (min_distance / window * 10).
calculate_proximity_bonus(text, keywords, window) ==
    IF Len(keywords) < 2 THEN 0
    ELSE LET positions == ProximityPositions(text, keywords)
         IN  IF Cardinality(positions) < 2 THEN 0
             ELSE LET min_distance ==
                          LeastOf({Distance(pair[1][2], pair[2][2]) :
                                      pair \in {x \in positions \X positions :
                                                    x[1] # x[2]}})
                  IN  IF min_distance <= window
                      THEN Larger(0, 20 * window - 10 * min_distance)
                      ELSE 0

\* The keywords of a query, as QueryIntent.keywords lists them.
ProximityKeywords ==
    {<<<<27531, 26989>> (* 残業 *)>>, <<<<27531, 26989>> (* 残業 *), <<30003, 35531>> (* 申請 *)>>, <<<<30003, 35531>> (* 申請 *), <<27531, 26989>> (* 残業 *)>>,
     <<<<27531, 26989>> (* 残業 *), <<25163, 24403>> (* 手当 *)>>, <<<<27531, 26989>> (* 残業 *), <<20241, 26247>> (* 休暇 *), <<30003, 35531>> (* 申請 *)>>,
     <<<<27531, 26989>> (* 残業 *), <<20241, 26247>> (* 休暇 *), <<25163, 24403>> (* 手当 *), <<30003, 35531>> (* 申請 *)>>}

\* The page texts: the keywords next to each other, 50 and 51 characters
\* apart, far apart, far apart at first and next to each other later, one
\* keyword only, and none.
ProximityTexts ==
    {<<27531, 26989, 12398, 30003, 35531>> (* 残業の申請 *), <<27531, 26989>> (* 残業 *) \o Filler(48) \o <<30003, 35531>> (* 申請 *),
     <<27531, 26989>> (* 残業 *) \o Filler(49) \o <<30003, 35531>> (* 申請 *), <<27531, 26989>> (* 残業 *) \o Filler(60) \o <<30003, 35531>> (* 申請 *),
     <<27531, 26989>> (* 残業 *) \o Filler(60) \o <<30003, 35531, 27531, 26989>> (* 申請残業 *), <<30003, 35531>> (* 申請 *) \o Filler(60) \o <<20241, 26247, 25163, 24403>> (* 休暇手当 *),
     <<27531, 26989, 25163, 24403>> (* 残業手当 *), <<30003, 35531, 12377, 12427, 27531, 26989>> (* 申請する残業 *), <<27531, 26989>> (* 残業 *), <<36035, 37329>> (* 賃金 *)}

InitProximity ==
    /\ px_input \in [text : ProximityTexts, keywords : ProximityKeywords]
    /\ px_result = NoProximity
    /\ HighlightIdle /\ LLMIdle /\ AuthIdle
    /\ NormIdle /\ QueryIdle /\ AnalyzerIdle /\ SearchIdle
    /\ ScoreIdle /\ SnippetIdle /\ RangesIdle

\* self._calculate_proximity_bonus(text, query_intent.keywords)
CalculateProximityBonus ==
    /\ ~px_result.made
    /\ px_result' =
            [made |-> TRUE,
             bonus |-> calculate_proximity_bonus(px_input.text, px_input.keywords,
                                                 ProximityWindow)]
    /\ UNCHANGED <<px_input, highlightVars, llmVars, authVars, notAppVars>>

NextProximity == CalculateProximityBonus

SpecProximity == InitProximity /\ [][NextProximity]_vars

\* Where `word` occurs in `text`.
OccurrencesOf(text, word) ==
    {i \in 0..(Len(text) - Len(word)) : SubSeq(text, i + 1, i + Len(word)) = word}

\* Two distinct keywords occur somewhere in the text within `window`
\* characters of each other.
KeywordsClose(text, keywords, window) ==
    \E i, j \in 1..Len(keywords) :
        /\ keywords[i] # keywords[j]
        /\ \E p \in OccurrencesOf(StrLower(text), StrLower(keywords[i])),
              q \in OccurrencesOf(StrLower(text), StrLower(keywords[j])) :
                Distance(p, q) <= window

\* C28 as claimed: the bonus is positive, and at most 20, exactly when two
\* distinct keywords of the query occur somewhere in the page text within
\* 50 characters of each other, and 0 otherwise.
C28_BonusIffKeywordsClose ==
    px_result.made =>
        /\ px_result.bonus >= 0
        /\ px_result.bonus <= 20 * ProximityWindow
        /\ px_result.bonus > 0
            <=> KeywordsClose(px_input.text, px_input.keywords, ProximityWindow)

(***************************************************************************)
(* core/auth.py: SimpleAuth                                                *)
(***************************************************************************)

\* The last instant followed; time.time() is counted in whole units from 1.
MaxTime == 6

\* SimpleAuth(password, max_attempts, lockout_duration); the applications
\* construct it with the defaults 3 and 300.
AuthConfigs == [max_attempts : 0..3, lockout_duration : {0, 2}]

LockedOutMutant(state, now) == FALSE

\* st.session_state.lockout_until > time.time()
LockedOut(state, now) == state.lockout_until > now

ResetMutant(state) == [state EXCEPT !.lockout_until = 0]

\* The counters after a lockout has ended.
Reset(state) == [state EXCEPT !.login_attempts = 0, !.lockout_until = 0]

\* is_locked_out(): what it returns and the session state it leaves.
is_locked_out(state, now) ==
    IF LockedOut(state, now) THEN [returned |-> TRUE, state |-> state]
    ELSE IF state.lockout_until > 0 THEN [returned |-> FALSE, state |-> Reset(state)]
    ELSE [returned |-> FALSE, state |-> state]

\* authenticate(password), where password_ok tells whether the hash of the
\* password equals self.password_hash.
authenticate(config, state, now, password_ok) ==
    LET checked == is_locked_out(state, now)
        failed == [checked.state EXCEPT !.login_attempts = @ + 1]
    IN  IF checked.returned THEN [returned |-> FALSE, state |-> checked.state]
        ELSE IF password_ok
        THEN [returned |-> TRUE,
              state |-> [checked.state EXCEPT !.authenticated = TRUE,
                                              !.login_attempts = 0]]
        ELSE [returned |-> FALSE,
              state |-> IF failed.login_attempts >= config.max_attempts
                        THEN [failed EXCEPT !.lockout_until =
                                                now + config.lockout_duration]
                        ELSE failed]

\* _init_session_state of a new session
InitAuth ==
    /\ au_config \in AuthConfigs
    /\ au_state = NoSession
    /\ au_now = 1
    /\ au_call = NoAuthCall
    /\ HighlightIdle /\ LLMIdle /\ ProximityIdle
    /\ NormIdle /\ QueryIdle /\ AnalyzerIdle /\ SearchIdle
    /\ ScoreIdle /\ SnippetIdle /\ RangesIdle

notAuthVars == <<highlightVars, llmVars, proximityVars, notAppVars>>

Authenticate(password_ok) ==
    LET outcome == authenticate(au_config, au_state, au_now, password_ok)
    IN  /\ au_state' = outcome.state
        /\ au_call' = [made |-> TRUE, before |-> au_state, now |-> au_now,
                       password_ok |-> password_ok,
                       returned |-> outcome.returned, after |-> outcome.state]
        /\ UNCHANGED <<au_config, au_now, notAuthVars>>

\* render_login_form asks is_locked_out() before it shows the form.
IsLockedOut ==
    /\ au_state' = is_locked_out(au_state, au_now).state
    /\ UNCHANGED <<au_config, au_now, au_call, notAuthVars>>

\* logout()
Logout ==
    /\ au_state' = [au_state EXCEPT !.authenticated = FALSE]
    /\ UNCHANGED <<au_config, au_now, au_call, notAuthVars>>

\* Time passes.
Tick ==
    /\ au_now < MaxTime
    /\ au_now' = au_now + 1
    /\ UNCHANGED <<au_config, au_state, au_call, notAuthVars>>

NextAuth ==
    \/ \E password_ok \in BOOLEAN : Authenticate(password_ok)
    \/ IsLockedOut
    \/ Logout
    \/ Tick

SpecAuth == InitAuth /\ [][NextAuth]_vars

\* The call was made with login_attempts at max_attempts and before
\* lockout_until had passed.
CallDuringLockout ==
    /\ au_call.made
    /\ au_call.before.login_attempts >= au_config.max_attempts
    /\ au_call.now < au_call.before.lockout_until

\* C29: an authenticate() call made with login_attempts at max_attempts and
\* before lockout_until has passed returns False, whatever the password, and
\* leaves authenticated, login_attempts and lockout_until as they were; and
\* authenticated turns True only in an authenticate() call with the correct
\* password made while not locked out.
C29_LockoutHolds ==
    /\ [](CallDuringLockout =>
            ~au_call.returned /\ au_call.after = au_call.before)
    /\ [][(~au_state.authenticated /\ au_state'.authenticated) =>
            /\ au_call'.made /\ au_call'.password_ok /\ au_call'.returned
            /\ au_call'.before = au_state /\ au_call'.now = au_now
            /\ ~LockedOut(au_state, au_now)]_vars

\* The correct password was refused during a lockout.
C29_Witness == CallDuringLockout /\ au_call.password_ok /\ ~au_call.returned

\* A login after the lockout has ended.
C29_WitnessLogin ==
    /\ au_call.made /\ au_call.returned /\ au_state.authenticated
    /\ au_call.before.lockout_until > 0

\* C30: for max_attempts >= 1, login_attempts never exceeds max_attempts,
\* and lockout_until is non-zero only while login_attempts is at
\* max_attempts, that is, it was reached since the last reset.
C30_AttemptsBounded ==
    au_config.max_attempts >= 1 =>
        /\ au_state.login_attempts <= au_config.max_attempts
        /\ au_state.lockout_until # 0
            => au_state.login_attempts >= au_config.max_attempts

\* A lockout that followed an earlier one: the counter is at max_attempts
\* again after a reset.
C30_Witness ==
    /\ au_config.max_attempts >= 2
    /\ au_state.login_attempts = au_config.max_attempts
    /\ au_state.lockout_until > 0
    /\ au_call.made /\ au_call.before.login_attempts = au_config.max_attempts - 1
    /\ au_call.now >= 4

(***************************************************************************)
(* core/answer_generator.py: AnswerGenerator._highlight_keywords, and      *)
(* repeated highlighting                                                   *)
(***************************************************************************)

\* The keyword of "単語(説明)": kw itself without a parenthesis, the part
\* before the first one otherwise, and nothing (<< >>) when kw begins with
\* one, where re.match(r"([^(]+)\(", kw) fails.
ActualKeyword(kw) ==
    IF ~Contains(kw, <<40>> (* ( *)) THEN kw ELSE SubSeq(kw, 1, Find(kw, <<40>> (* ( *)))

RECURSIVE ActualKeywords(_)
ActualKeywords(keywords) ==
    IF keywords = << >> THEN << >>
    ELSE LET rest == ActualKeywords(SubSeq(keywords, 1, Len(keywords) - 1))
             actual == ActualKeyword(keywords[Len(keywords)])
         IN  IF actual = << >> /\ Contains(keywords[Len(keywords)], <<40>> (* ( *))
             THEN rest
             ELSE Append(rest, actual)

\* actual_keywords.sort(key=len, reverse=True): stable, so keywords of one
\* length keep their order.
InsertByLength(sorted, keyword) ==
    LET n == Cardinality({i \in 1..Len(sorted) : Len(sorted[i]) >= Len(keyword)})
    IN  SubSeq(sorted, 1, n) \o <<keyword>> \o SubSeq(sorted, n + 1, Len(sorted))

RECURSIVE SortByLength(_)
SortByLength(keywords) ==
    IF keywords = << >> THEN << >>
    ELSE InsertByLength(SortByLength(SubSeq(keywords, 1, Len(keywords) - 1)),
                        keywords[Len(keywords)])

\* pattern.sub(f"**{keyword}**", highlighted): every match, in whatever
\* case, is replaced by the keyword between the markers.
RECURSIVE SubKeywordFrom(_, _, _)
SubKeywordFrom(text, keyword, i) ==
    LET at == {j \in i..(Len(text) - Len(keyword)) : MatchesAt(text, keyword, j)}
        m == LeastOf(at)
    IN  IF at = {} THEN Slice(text, i, Len(text))
        ELSE Slice(text, i, m) \o Bold \o keyword \o Bold
                 \o SubKeywordFrom(text, keyword, m + Len(keyword))

\* The loop over actual_keywords.
RECURSIVE SubKeywords(_, _)
SubKeywords(highlighted, actual_keywords) ==
    IF actual_keywords = << >> THEN highlighted
    ELSE SubKeywords(SubKeywordFrom(highlighted, Head(actual_keywords), 0),
                     Tail(actual_keywords))

highlight_keywords(text, keywords) ==
    SubKeywords(text, SortByLength(ActualKeywords(keywords)))

\* How often a highlighter is applied to its own result.
MaxHighlights == 2

HighlightTexts == {<<26377, 32102, 20241, 26247, 12398, 30003, 35531>> (* 有給休暇の申請 *), <<26377, 32102, 12398, 30003, 35531>> (* 有給の申請 *), <<97, 98, 32, 65, 66>> (* ab AB *), <<27531, 26989>> (* 残業 *), << >>}
HighlightQueries == {<<26377, 32102>> (* 有給 *), <<26377, 32102, 20241, 26247>> (* 有給休暇 *), <<30003, 35531>> (* 申請 *), <<97, 98>> (* ab *), << >>}
HighlightKeywords ==
    {<<<<26377, 32102, 20241, 26247>> (* 有給休暇 *), <<26377, 32102>> (* 有給 *)>>, <<<<26377, 32102>> (* 有給 *), <<26377, 32102, 20241, 26247>> (* 有給休暇 *)>>, <<<<30003, 35531>> (* 申請 *)>>, <<<<97, 98>> (* ab *)>>,
     <<<<26377, 32102, 40, 24180, 20241, 41>> (* 有給(年休) *), <<30003, 35531>> (* 申請 *)>>, <<<<40, 120, 41>> (* (x) *)>>, << >>}

InitHighlight ==
    /\ \/ hl_input \in [fn : {"highlight_text"}, text : HighlightTexts,
                        terms : {<<q>> : q \in HighlightQueries}]
       \/ hl_input \in [fn : {"_highlight_keywords"}, text : HighlightTexts,
                        terms : HighlightKeywords]
    /\ hl_texts = << >>
    /\ LLMIdle /\ ProximityIdle /\ AuthIdle
    /\ NormIdle /\ QueryIdle /\ AnalyzerIdle /\ SearchIdle
    /\ ScoreIdle /\ SnippetIdle /\ RangesIdle

\* The text the next application gets: the input, then the last result.
ToHighlight == IF hl_texts = << >> THEN hl_input.text ELSE hl_texts[Len(hl_texts)]

\* highlight_text(text, query)
HighlightText ==
    /\ hl_input.fn = "highlight_text"
    /\ Len(hl_texts) < MaxHighlights
    /\ hl_texts' = Append(hl_texts, highlight_text(ToHighlight, hl_input.terms[1]))
    /\ UNCHANGED <<hl_input, llmVars, proximityVars, authVars, notAppVars>>

\* self._highlight_keywords(text, keywords)
HighlightKeywordsOf ==
    /\ hl_input.fn = "_highlight_keywords"
    /\ Len(hl_texts) < MaxHighlights
    /\ hl_texts' = Append(hl_texts, highlight_keywords(ToHighlight, hl_input.terms))
    /\ UNCHANGED <<hl_input, llmVars, proximityVars, authVars, notAppVars>>

NextHighlight == HighlightText \/ HighlightKeywordsOf

SpecHighlight == InitHighlight /\ [][NextHighlight]_vars

\* A wrapped longer term holds a shorter term of the same set.
WrappedTermIntact ==
    \A i, j \in 1..Len(hl_input.terms) :
        (/\ Len(hl_input.terms[j]) < Len(hl_input.terms[i])
         /\ Contains(hl_input.terms[i], hl_input.terms[j])
         /\ Contains(hl_input.text, hl_input.terms[i]))
            => Contains(hl_texts[1], Bold \o hl_input.terms[i] \o Bold)

\* C22 as claimed: a highlighter applied to its own result, with the same
\* terms, returns it unchanged, and a shorter term inside a longer term
\* that is already wrapped is not wrapped again.
C22_HighlightIdempotent ==
    /\ Len(hl_texts) >= 1 => WrappedTermIntact
    /\ Len(hl_texts) >= 2 => hl_texts[2] = hl_texts[1]

====
